---- MODULE Spec2Model ----
(***************************************************************************)
(* The editor session of krozzzis/p3 (gui/src/main.rs): the session state  *)
(* (documents, panes, config), the reducer App::update, the generic        *)
(* actions of App::perform_action, the hotkey dispatcher and the           *)
(* asynchronous tasks whose completions re-enter the reducer as messages.  *)
(***************************************************************************)
EXTENDS Integers, Sequences, FiniteSets, TLC

VARIABLES
    state,   \* App.state: [documents, panes, config, theme]
    tasks,   \* the tasks returned by update and not yet completed
    last,    \* history: the message processed by the latest update call
    pre,     \* history: App.state as it was when that update call began
    emitted  \* history: the tasks that update call returned

vars == <<state, tasks, last, pre, emitted>>

-----------------------------------------------------------------------------
(* Bounds of the model *)

\* document ids the store may allocate: 1..MaxDocs
MaxDocs == 2
\* pane ids the pane model may allocate: 0..MaxPanes-1
MaxPanes == 2
\* tasks in flight at once
MaxPending == 1
\* characters in a buffer
MaxText == 1
\* presses a button accepts in one run
MaxPresses == 2

-----------------------------------------------------------------------------
(* Values *)

None == <<>>
Some(x) == <<x>>
IsSome(o) == o # None
Unwrap(o) == o[1]

\* every document id a message may name; MaxDocs+1 is never allocated
DocIds == 1..(MaxDocs + 1)
\* every pane id a message may name; MaxPanes is never allocated
PaneIds == 0..MaxPanes

\* core::pane::Pane
NewDocument == <<"NewDocument">>
Buffer == <<"Buffer">>
ConfigPane == <<"Config">>
Editor(d) == <<"Editor", d>>
Panes == {NewDocument, Buffer, ConfigPane} \cup {Editor(d) : d \in 1..MaxDocs}

\* paths are sequences of components; file contents are sequences of characters
PathA == <<"x", "a.txt">>
PathB == <<"y", "b.txt">>
Paths == {PathA, PathB}
Texts == {[i \in 1..n |-> "h"] : n \in 0..MaxText}

\* util::get_file_name: the last component of the path
get_file_name(path) == path[Len(path)]

\* the value iced::widget::text_editor::Action of a TextEditorAction message
EditInsert == <<"Edit", "Insert">>
EditBackspace == <<"Edit", "Backspace">>
MoveCursor == <<"Move">>
SelectAll == <<"SelectAll">>
EditorActions == {EditInsert, EditBackspace, MoveCursor, SelectAll}

\* text_editor::Action::is_edit
is_edit(action) == action[1] = "Edit"

\* text_editor::Content::perform on the text of the buffer
perform(text, action) ==
    IF action = EditInsert THEN Append(text, "h")
    ELSE IF action = EditBackspace /\ Len(text) > 0 THEN SubSeq(text, 1, Len(text) - 1)
    ELSE text

-----------------------------------------------------------------------------
(* config::Config: namespace -> property -> value *)

ConfigNew == <<>>

ConfigHas(c, ns, p) == ns \in DOMAIN c /\ p \in DOMAIN c[ns]

\* Config::get
ConfigGet(c, ns, p) == IF ConfigHas(c, ns, p) THEN Some(c[ns][p]) ELSE None

\* Config::insert that keeps the value a property already has
ConfigInsert_KeepsFirst(c, ns, p, v) ==
    IF ns \in DOMAIN c
    THEN [c EXCEPT ![ns] = [q \in DOMAIN c[ns] \cup {p} |->
            IF q \in DOMAIN c[ns] THEN c[ns][q] ELSE v]]
    ELSE [n \in DOMAIN c \cup {ns} |-> IF n = ns THEN [q \in {p} |-> v] ELSE c[n]]

\* Config::insert that starts the namespace anew on every call
ConfigInsert_NewNamespace(c, ns, p, v) ==
    [n \in DOMAIN c \cup {ns} |-> IF n = ns THEN [q \in {p} |-> v] ELSE c[n]]

\* Config::insert
ConfigInsert(c, ns, p, v) ==
    IF ns \in DOMAIN c
    THEN [c EXCEPT ![ns] = [q \in DOMAIN c[ns] \cup {p} |-> IF q = p THEN v ELSE c[ns][q]]]
    ELSE [n \in DOMAIN c \cup {ns} |-> IF n = ns THEN [q \in {p} |-> v] ELSE c[n]]

\* Config::remove_property: the namespace stays, also when it becomes empty
ConfigRemoveProperty(c, ns, p) ==
    IF ns \in DOMAIN c
    THEN [c EXCEPT ![ns] = [q \in DOMAIN c[ns] \ {p} |-> c[ns][q]]]
    ELSE c

\* the (namespace, property) pairs that hold a value
ConfigKeys(c) == UNION {{<<ns, p>> : p \in DOMAIN c[ns]} : ns \in DOMAIN c}

\* Config::merge: every (ns, prop, v) of other is applied onto c via insert
RECURSIVE MergeEntries(_, _, _)
MergeEntries(c, other, keys) ==
    IF keys = {} THEN c
    ELSE LET k == CHOOSE k \in keys : TRUE
         IN  MergeEntries(ConfigInsert(c, k[1], k[2], other[k[1]][k[2]]), other, keys \ {k})

ConfigMerge(c, other) == MergeEntries(c, other, ConfigKeys(other))

\* Config::load_or_create_default: file is what the file at the path parses
\* to, None when there is no file; the default is then written and returned
load_or_create_default(file, default) ==
    IF IsSome(file) THEN Unwrap(file) ELSE default

-----------------------------------------------------------------------------
(* core::document::DocumentStore: [docs: id -> handler, next: counter] *)

DocumentStoreNew == [docs |-> <<>>, next |-> 1]

DocHas(ds, id) == id \in DOMAIN ds.docs

\* DocumentStore::add: allocates a fresh id and inserts; the id is ds.next
DocAdd(ds, handler) ==
    [docs |-> [i \in DOMAIN ds.docs \cup {ds.next} |->
                 IF i = ds.next THEN handler ELSE ds.docs[i]],
     next |-> ds.next + 1]

\* DocumentStore::remove: removing an unknown id is a no-op
DocRemove(ds, id) ==
    [ds EXCEPT !.docs = [i \in DOMAIN ds.docs \ {id} |-> ds.docs[i]]]

-----------------------------------------------------------------------------
(* core::pane::PaneModel: [panes: id -> Pane, next: counter, open: Option] *)

PaneModelNew == [panes |-> <<>>, next |-> 0, open |-> None]

PaneHas(pm, id) == id \in DOMAIN pm.panes

\* PaneModel::count
PaneCount(pm) == Cardinality(DOMAIN pm.panes)

\* PaneModel::add: the new pane's id is pm.next
PaneAdd(pm, pane) ==
    [pm EXCEPT !.panes = [i \in DOMAIN pm.panes \cup {pm.next} |->
                            IF i = pm.next THEN pane ELSE pm.panes[i]],
               !.next = pm.next + 1]

\* PaneModel::open: focuses; no-op if id is absent
PaneOpen(pm, id) == IF PaneHas(pm, id) THEN [pm EXCEPT !.open = Some(id)] ELSE pm

\* PaneModel::get_open_id
PaneGetOpenId(pm) == pm.open

\* PaneModel::get_open
PaneGetOpen(pm) ==
    IF IsSome(pm.open) /\ PaneHas(pm, Unwrap(pm.open))
    THEN Some(pm.panes[Unwrap(pm.open)]) ELSE None

\* PaneModel::replace: keeps the id and the focus; no-op if id is absent
PaneReplace(pm, id, pane) ==
    IF PaneHas(pm, id) THEN [pm EXCEPT !.panes[id] = pane] ELSE pm

\* PaneModel::remove: removing the open pane clears open_id
PaneRemove(pm, id) ==
    [pm EXCEPT !.panes = [i \in DOMAIN pm.panes \ {id} |-> pm.panes[i]],
               !.open = IF pm.open = Some(id) THEN None ELSE pm.open]

\* the Option<Pane> PaneModel::remove returns
PaneRemoved(pm, id) == IF PaneHas(pm, id) THEN Some(pm.panes[id]) ELSE None

-----------------------------------------------------------------------------
(* core::action: the generic actions, and the messages of AppMessage *)

\* the handlers a DocumentAction::Add may carry
Handlers == {[text |-> <<"h">>, path |-> PathA, filename |-> "a.txt", changed |-> FALSE]}

PickFile == [family |-> "File", op |-> "PickFile"]

FileActions ==
    {PickFile}
    \cup {[family |-> "File", op |-> o, path |-> PathA] :
            o \in {"OpenFileCurrentTab", "OpenFileForceCurrentTab", "OpenFileNewTab"}}

PaneActions ==
    {[family |-> "Pane", op |-> o, id |-> i] : o \in {"Close", "Open"}, i \in PaneIds}
    \cup {[family |-> "Pane", op |-> "Add", pane |-> pn] : pn \in Panes}
    \cup {[family |-> "Pane", op |-> "Replace", id |-> i, pane |-> pn] :
            i \in PaneIds, pn \in Panes}

DocumentActions ==
    {[family |-> "Document", op |-> "Add", handler |-> h] : h \in Handlers}
    \cup {[family |-> "Document", op |-> o, id |-> d] :
            o \in {"Open", "Save", "Remove"}, d \in DocIds}

GenericActions == FileActions \cup PaneActions \cup DocumentActions

MsgNone == [type |-> "None"]
MsgAction(a) == [type |-> "Action", action |-> a]
MsgGenericAction(a) == [type |-> "GenericAction", action |-> a]
MsgAddTheme(id) == [type |-> "AddTheme", id |-> id]
MsgLoadTheme(id) == [type |-> "LoadTheme", id |-> id]
\* written records whether the write task succeeded; the message does not carry it
MsgSavedFile(id, written) == [type |-> "SavedFile", id |-> id, written |-> written]
\* via records the FileAction that started the read; the message does not carry it
MsgOpenedOk(path, content, via) ==
    [type |-> "OpenedFile", ok |-> TRUE, path |-> path, content |-> content, via |-> via]
MsgOpenedErr(via) == [type |-> "OpenedFile", ok |-> FALSE, via |-> via]
MsgTextEditorAction(action, id) == [type |-> "TextEditorAction", action |-> action, id |-> id]
MsgLoadPlugin(id, load) == [type |-> "LoadPlugin", id |-> id, load |-> load]
MsgOnKeyPress(key, control, alt) ==
    [type |-> "OnKeyPress", key |-> key, control |-> control, alt |-> alt]

\* Task::perform(pick_file(None), AppMessage::OpenedFile)
TaskPick == [kind |-> "pick", via |-> "PickFile"]
\* Task::perform(open_file(path), AppMessage::OpenedFile)
TaskRead(path, via) == [kind |-> "read", path |-> path, via |-> via]
\* Task::perform(save_file(path, text), move |_| SavedFile(id))
TaskSave(id, path, text) == [kind |-> "save", id |-> id, path |-> path, text |-> text]
\* Task::done(message)
TaskDone(msg) == [kind |-> "done", msg |-> msg]
\* Task::run(stream, f), also chained with a task that follows it: the
\* messages it yields, in order
TaskRun(msgs) == [kind |-> "run", msgs |-> msgs]

\* what update and perform_action return: the new state and the batched tasks
Result(s, ts) == [state |-> s, tasks |-> ts]

-----------------------------------------------------------------------------
(* App::perform_action *)

\* GenericAction::File: every variant only schedules a read
FileAction(s, action) ==
    IF action.op = "PickFile"
    THEN Result(s, <<TaskPick>>)
    ELSE Result(s, <<TaskRead(action.path, action.op)>>)

\* PaneAction::Close that forgets the document of a closed Editor pane
PaneClose_KeepsDocument(s, id) ==
    LET pm1 == PaneRemove(s.panes, id)
        pm2 == IF PaneCount(pm1) = 0
               THEN PaneOpen(PaneAdd(pm1, NewDocument), pm1.next)
               ELSE pm1
    IN  [s EXCEPT !.panes = pm2]

\* PaneAction::Close that seeds the NewDocument pane without focusing it
PaneClose_SeedUnfocused(s, id) ==
    LET pane == PaneRemoved(s.panes, id)
        pm1 == PaneRemove(s.panes, id)
        ds1 == IF IsSome(pane) /\ Unwrap(pane)[1] = "Editor"
               THEN DocRemove(s.documents, Unwrap(pane)[2])
               ELSE s.documents
        pm2 == IF PaneCount(pm1) = 0 THEN PaneAdd(pm1, NewDocument) ELSE pm1
    IN  [s EXCEPT !.panes = pm2, !.documents = ds1]

\* PaneAction::Close that leaves open_id as it was when other panes remain
PaneClose_KeepsFocus(s, id) ==
    LET pane == PaneRemoved(s.panes, id)
        pm1 == [s.panes EXCEPT !.panes = [i \in DOMAIN s.panes.panes \ {id} |-> s.panes.panes[i]]]
        ds1 == IF IsSome(pane) /\ Unwrap(pane)[1] = "Editor"
               THEN DocRemove(s.documents, Unwrap(pane)[2])
               ELSE s.documents
        pm2 == IF PaneCount(pm1) = 0
               THEN PaneOpen(PaneAdd(pm1, NewDocument), pm1.next)
               ELSE pm1
    IN  [s EXCEPT !.panes = pm2, !.documents = ds1]

\* PaneAction::Close that focuses the first remaining pane when the focused
\* pane was closed
PaneClose_FocusesRemaining(s, id) ==
    LET pane == PaneRemoved(s.panes, id)
        pm1 == PaneRemove(s.panes, id)
        ds1 == IF IsSome(pane) /\ Unwrap(pane)[1] = "Editor"
               THEN DocRemove(s.documents, Unwrap(pane)[2])
               ELSE s.documents
        pm2 == IF PaneCount(pm1) = 0
               THEN PaneOpen(PaneAdd(pm1, NewDocument), pm1.next)
               ELSE IF pm1.open = None
                    THEN PaneOpen(pm1, CHOOSE i \in DOMAIN pm1.panes :
                                          \A j \in DOMAIN pm1.panes : i <= j)
                    ELSE pm1
    IN  [s EXCEPT !.panes = pm2, !.documents = ds1]

\* PaneAction::Close that seeds no pane when the last one is removed
PaneClose_NoSeed(s, id) ==
    LET pane == PaneRemoved(s.panes, id)
        ds1 == IF IsSome(pane) /\ Unwrap(pane)[1] = "Editor"
               THEN DocRemove(s.documents, Unwrap(pane)[2])
               ELSE s.documents
    IN  [s EXCEPT !.panes = PaneRemove(s.panes, id), !.documents = ds1]

\* PaneAction::Close
PaneClose(s, id) ==
    LET pane == PaneRemoved(s.panes, id)
        pm1 == PaneRemove(s.panes, id)
        ds1 == IF IsSome(pane) /\ Unwrap(pane)[1] = "Editor"
               THEN DocRemove(s.documents, Unwrap(pane)[2])
               ELSE s.documents
        pm2 == IF PaneCount(pm1) = 0
               THEN PaneOpen(PaneAdd(pm1, NewDocument), pm1.next)
               ELSE pm1
    IN  [s EXCEPT !.panes = pm2, !.documents = ds1]

\* PaneAction::Add
PaneAddOpen(s, pane) ==
    [s EXCEPT !.panes = PaneOpen(PaneAdd(s.panes, pane), s.panes.next)]

\* GenericAction::Pane whose Replace stores the pane under an id not in the model
PaneAction_ReplaceInserts(s, action) ==
    CASE action.op = "Close" -> Result(PaneClose(s, action.id), <<>>)
      [] action.op = "Open" ->
            Result([s EXCEPT !.panes = PaneOpen(s.panes, action.id)], <<>>)
      [] action.op = "Add" -> Result(PaneAddOpen(s, action.pane), <<>>)
      [] action.op = "Replace" ->
            Result([s EXCEPT !.panes.panes =
                        [i \in DOMAIN s.panes.panes \cup {action.id} |->
                            IF i = action.id THEN action.pane ELSE s.panes.panes[i]]],
                   <<>>)

\* GenericAction::Pane whose Replace also focuses the pane
PaneAction_ReplaceFocuses(s, action) ==
    CASE action.op = "Close" -> Result(PaneClose(s, action.id), <<>>)
      [] action.op = "Open" ->
            Result([s EXCEPT !.panes = PaneOpen(s.panes, action.id)], <<>>)
      [] action.op = "Add" -> Result(PaneAddOpen(s, action.pane), <<>>)
      [] action.op = "Replace" ->
            Result([s EXCEPT !.panes =
                        PaneOpen(PaneReplace(s.panes, action.id, action.pane), action.id)],
                   <<>>)

\* GenericAction::Pane
PaneAction(s, action) ==
    CASE action.op = "Close" -> Result(PaneClose(s, action.id), <<>>)
      [] action.op = "Open" ->
            Result([s EXCEPT !.panes = PaneOpen(s.panes, action.id)], <<>>)
      [] action.op = "Add" -> Result(PaneAddOpen(s, action.pane), <<>>)
      [] action.op = "Replace" ->
            Result([s EXCEPT !.panes = PaneReplace(s.panes, action.id, action.pane)], <<>>)

\* DocumentAction::Save that starts the write and returns no task for it, so
\* that no completion message follows
DocumentSave_NoCompletion(s, id) == Result(s, <<>>)

\* DocumentAction::Save
DocumentSave(s, id) ==
    IF DocHas(s.documents, id)
    THEN Result(s, <<TaskSave(id, s.documents.docs[id].path, s.documents.docs[id].text)>>)
    ELSE Result(s, <<>>)

\* GenericAction::Document whose Remove also removes the panes showing the
\* document
DocumentAction_RemoveClosesPanes(s, action) ==
    CASE action.op = "Add" ->
            Result([s EXCEPT !.documents = DocAdd(s.documents, action.handler)], <<>>)
      [] action.op = "Open" ->
            Result(s, <<TaskDone(MsgAction(
                [family |-> "Pane", op |-> "Add", pane |-> Editor(action.id)]))>>)
      [] action.op = "Save" -> DocumentSave(s, action.id)
      [] action.op = "Remove" ->
            Result([s EXCEPT !.documents = DocRemove(s.documents, action.id),
                             !.panes.panes =
                                [i \in {j \in DOMAIN s.panes.panes :
                                            s.panes.panes[j] # Editor(action.id)}
                                    |-> s.panes.panes[i]]],
                   <<>>)

\* GenericAction::Document
DocumentAction(s, action) ==
    CASE action.op = "Add" ->
            Result([s EXCEPT !.documents = DocAdd(s.documents, action.handler)], <<>>)
      [] action.op = "Open" ->
            Result(s, <<TaskDone(MsgAction(
                [family |-> "Pane", op |-> "Add", pane |-> Editor(action.id)]))>>)
      [] action.op = "Save" -> DocumentSave(s, action.id)
      [] action.op = "Remove" ->
            Result([s EXCEPT !.documents = DocRemove(s.documents, action.id)], <<>>)

perform_action(s, action) ==
    CASE action.family = "File" -> FileAction(s, action)
      [] action.family = "Pane" -> PaneAction(s, action)
      [] action.family = "Document" -> DocumentAction(s, action)

-----------------------------------------------------------------------------
(* The hotkey registry built by App::new, and App::on_key_press *)

Ctrl == "Ctrl"
Alt == "Alt"
CtrlAlt == "CtrlAlt"
NoModifier == "None"

HotKey(modifiers, key) == [modifiers |-> modifiers, key |-> key]

\* iced::keyboard::Key: a character key carries a string, a named key a name
KeyCharacter(str) == <<"Character", str>>
KeyNamed(name) == <<"Named", name>>

\* the keys of the registry
BoundHotKeys == {HotKey(Ctrl, c) : c \in {"o", "d", "t", "w", "b", ","}}

\* the closure bound to hotkey, applied to the state
HotKeyHandler(hotkey, s) ==
    CASE hotkey.key = "o" -> MsgAction([family |-> "File", op |-> "PickFile"])
      [] hotkey.key = "d" -> MsgLoadTheme("core.dark")
      [] hotkey.key = "t" -> MsgAction([family |-> "Pane", op |-> "Add", pane |-> NewDocument])
      [] hotkey.key = "w" ->
            IF IsSome(PaneGetOpenId(s.panes))
            THEN MsgAction([family |-> "Pane", op |-> "Close",
                            id |-> Unwrap(PaneGetOpenId(s.panes))])
            ELSE MsgNone
      [] hotkey.key = "b" -> MsgAction([family |-> "Pane", op |-> "Add", pane |-> Buffer])
      [] hotkey.key = "," -> MsgAction([family |-> "Pane", op |-> "Add", pane |-> ConfigPane])

\* the chord of a key press: c.chars().next().unwrap_or_default() and the modifier
Normalize(key, control, alt) ==
    HotKey(IF control /\ alt THEN CtrlAlt
           ELSE IF control THEN Ctrl
           ELSE IF alt THEN Alt
           ELSE NoModifier,
           IF Len(key[2]) > 0 THEN key[2][1] ELSE "")

\* App::on_key_press that looks the whole string of the key up, not its first
\* character
on_key_press_WholeKey(s, key, control, alt) ==
    IF key[1] = "Character" /\ Len(key[2]) = 1
       /\ Normalize(key, control, alt) \in BoundHotKeys
    THEN Some(HotKeyHandler(Normalize(key, control, alt), s))
    ELSE None

\* App::on_key_press that takes control with alt for control alone
on_key_press_IgnoresAlt(s, key, control, alt) ==
    IF key[1] = "Character" /\ Normalize(key, control, FALSE) \in BoundHotKeys
    THEN Some(HotKeyHandler(Normalize(key, control, FALSE), s))
    ELSE None

\* App::on_key_press: Option<AppMessage>
on_key_press(s, key, control, alt) ==
    IF key[1] = "Character" /\ Normalize(key, control, alt) \in BoundHotKeys
    THEN Some(HotKeyHandler(Normalize(key, control, alt), s))
    ELSE None

-----------------------------------------------------------------------------
(* App::update *)

\* plugin::PluginHost: the registered plugins in registration order, each
\* [id, plugin, loaded]; a plugin is Registered (loaded = FALSE) or Loaded
PluginHostNew == <<>>

\* the plugin App::new registers; it rewrites no action
ExamplePlugin == "ExamplePlugin"
\* a plugin that opens a NewDocument pane before every Buffer pane
TabsPlugin == "TabsPlugin"

ExampleId == "core.example"
TabsId == "x.tabs"
PluginIds == {ExampleId, TabsId, "x.unknown"}

\* Plugin::process_action: Some(list) when the plugin rewrites the action, None
\* when it passes the action through
PluginProcess(plugin, s, action) ==
    IF plugin = TabsPlugin
       /\ action = [family |-> "Pane", op |-> "Add", pane |-> Buffer]
    THEN Some(<<[family |-> "Pane", op |-> "Add", pane |-> NewDocument],
                [family |-> "Pane", op |-> "Add", pane |-> Buffer]>>)
    ELSE None

PluginRegistered(host, id) == \E i \in 1..Len(host) : host[i].id = id

\* the plugin with this id is in Loaded state
PluginLoaded(host, id) == \E i \in 1..Len(host) : host[i].id = id /\ host[i].loaded

\* PluginHost::register_plugin: a second registration of an id is rejected
register_plugin(host, id, plugin) ==
    IF PluginRegistered(host, id) THEN host
    ELSE Append(host, [id |-> id, plugin |-> plugin, loaded |-> FALSE])

\* PluginHost::get_plugin_ids
get_plugin_ids(host) == [i \in 1..Len(host) |-> host[i].id]

\* PluginHost::load_plugin: no-op on an unknown id
load_plugin(host, id) ==
    [i \in 1..Len(host) |->
        IF host[i].id = id THEN [host[i] EXCEPT !.loaded = TRUE] ELSE host[i]]

\* PluginHost::unload_plugin: no-op on an unknown id
unload_plugin(host, id) ==
    [i \in 1..Len(host) |->
        IF host[i].id = id THEN [host[i] EXCEPT !.loaded = FALSE] ELSE host[i]]

IsLoaded(h) == h.loaded

\* the first rewrite among the plugins consulted wins; when none rewrites, the
\* action passes through as a singleton list
RECURSIVE Consult(_, _, _)
Consult(consulted, s, action) ==
    IF consulted = <<>> THEN <<action>>
    ELSE IF IsSome(PluginProcess(Head(consulted).plugin, s, action))
         THEN Unwrap(PluginProcess(Head(consulted).plugin, s, action))
         ELSE Consult(Tail(consulted), s, action)

\* PluginHost::process_action: the loaded plugins are consulted in registration
\* order
process_action(s, action) == Consult(SelectSeq(s.plugin_host, IsLoaded), s, action)

\* AppMessage::Action that applies the generic actions from the last to the first
RECURSIVE PerformAll_Reversed(_, _)
PerformAll_Reversed(s, actions) ==
    IF actions = <<>> THEN Result(s, <<>>)
    ELSE LET r1 == perform_action(s, actions[Len(actions)])
             r2 == PerformAll_Reversed(r1.state, SubSeq(actions, 1, Len(actions) - 1))
         IN  Result(r2.state, r1.tasks \o r2.tasks)

\* AppMessage::Action that applies the generic actions and forgets their tasks
RECURSIVE PerformAll_DropsTasks(_, _)
PerformAll_DropsTasks(s, actions) ==
    IF actions = <<>> THEN Result(s, <<>>)
    ELSE PerformAll_DropsTasks(perform_action(s, Head(actions)).state, Tail(actions))

\* AppMessage::Action: the generic actions are applied in list order and their
\* tasks batched
RECURSIVE PerformAll(_, _)
PerformAll(s, actions) ==
    IF actions = <<>> THEN Result(s, <<>>)
    ELSE LET r1 == perform_action(s, Head(actions))
             r2 == PerformAll(r1.state, Tail(actions))
         IN  Result(r2.state, r1.tasks \o r2.tasks)

\* State::set_theme
set_theme(s, id) == [s EXCEPT !.theme = id]

\* AppMessage::LoadPlugin that flips the plugin's state whatever the flag says
LoadPlugin_Toggles(s, id, load) ==
    IF PluginLoaded(s.plugin_host, id)
    THEN [s EXCEPT !.plugin_host = unload_plugin(s.plugin_host, id)]
    ELSE [s EXCEPT !.plugin_host = load_plugin(s.plugin_host, id)]

\* AppMessage::LoadPlugin
LoadPlugin(s, id, load) ==
    IF load
    THEN [s EXCEPT !.plugin_host = load_plugin(s.plugin_host, id)]
    ELSE [s EXCEPT !.plugin_host = unload_plugin(s.plugin_host, id)]

\* AppMessage::SavedFile that clears the flag of every document
SavedFile_ClearsAll(s, id) ==
    IF DocHas(s.documents, id)
    THEN [s EXCEPT !.documents.docs =
            [d \in DOMAIN s.documents.docs |-> [s.documents.docs[d] EXCEPT !.changed = FALSE]]]
    ELSE s

\* AppMessage::SavedFile that inserts a clean handler when the id is missing
SavedFile_Upsert(s, id) ==
    [s EXCEPT !.documents.docs =
        [d \in DOMAIN s.documents.docs \cup {id} |->
            IF d \in DOMAIN s.documents.docs
            THEN IF d = id THEN [s.documents.docs[d] EXCEPT !.changed = FALSE]
                 ELSE s.documents.docs[d]
            ELSE [text |-> <<>>, path |-> PathA, filename |-> "a.txt", changed |-> FALSE]]]

\* AppMessage::SavedFile
SavedFile(s, id) ==
    IF DocHas(s.documents, id)
    THEN [s EXCEPT !.documents.docs[id].changed = FALSE]
    ELSE s

\* AppMessage::TextEditorAction that marks the document on every action
TextEditorAction_AlwaysChanged(s, action, document) ==
    IF DocHas(s.documents, document)
    THEN [s EXCEPT !.documents.docs[document] =
            [@ EXCEPT !.changed = TRUE, !.text = perform(@, action)]]
    ELSE s

\* AppMessage::TextEditorAction
TextEditorAction(s, action, document) ==
    IF DocHas(s.documents, document)
    THEN [s EXCEPT !.documents.docs[document] =
            [@ EXCEPT !.changed = IF is_edit(action) THEN TRUE ELSE @,
                      !.text = perform(@, action)]]
    ELSE s

\* OpenedFile(Ok) that always adds a pane, whatever pane is focused
OpenedFileOk_AlwaysAdd(s, path, content) ==
    LET handler == [text |-> content, path |-> path,
                    filename |-> get_file_name(path), changed |-> FALSE]
        doc_id == s.documents.next
    IN  [s EXCEPT !.documents = DocAdd(s.documents, handler),
                  !.panes = PaneOpen(PaneAdd(s.panes, Editor(doc_id)), s.panes.next)]

\* OpenedFile(Ok) that replaces the focused pane, whatever it holds
OpenedFileOk_AlwaysReplace(s, path, content) ==
    LET handler == [text |-> content, path |-> path,
                    filename |-> get_file_name(path), changed |-> FALSE]
        doc_id == s.documents.next
        pm == IF IsSome(PaneGetOpen(s.panes))
              THEN PaneReplace(s.panes, Unwrap(PaneGetOpenId(s.panes)), Editor(doc_id))
              ELSE PaneOpen(PaneAdd(s.panes, Editor(doc_id)), s.panes.next)
    IN  [s EXCEPT !.documents = DocAdd(s.documents, handler), !.panes = pm]

\* AppMessage::OpenedFile(Ok(..)) that replaces pane 0 instead of the focused
\* NewDocument pane
OpenedFileOk_ReplacesPaneZero(s, path, content) ==
    LET handler == [text |-> content, path |-> path,
                    filename |-> get_file_name(path), changed |-> FALSE]
        pane == Editor(s.documents.next)
        pm == IF PaneGetOpen(s.panes) = Some(NewDocument)
              THEN PaneReplace(s.panes, 0, pane)
              ELSE PaneOpen(PaneAdd(s.panes, pane), s.panes.next)
    IN  [s EXCEPT !.documents = DocAdd(s.documents, handler), !.panes = pm]

\* AppMessage::OpenedFile(Ok((path, content)))
OpenedFileOk(s, path, content) ==
    LET handler == [text |-> content, path |-> path,
                    filename |-> get_file_name(path), changed |-> FALSE]
        doc_id == s.documents.next
        ds == DocAdd(s.documents, handler)
        pane == Editor(doc_id)
        pm == IF PaneGetOpen(s.panes) = Some(NewDocument)
              THEN PaneReplace(s.panes,
                               IF IsSome(PaneGetOpenId(s.panes))
                               THEN Unwrap(PaneGetOpenId(s.panes)) ELSE 0,
                               pane)
              ELSE PaneOpen(PaneAdd(s.panes, pane), s.panes.next)
    IN  [s EXCEPT !.documents = ds, !.panes = pm]

\* AppMessage::OpenedFile that opens an empty document when the read failed
OpenedFile_IgnoresError(s, msg) ==
    IF msg.ok THEN OpenedFileOk(s, msg.path, msg.content) ELSE OpenedFileOk(s, PathA, <<>>)

\* AppMessage::OpenedFile
OpenedFile(s, msg) == IF msg.ok THEN OpenedFileOk(s, msg.path, msg.content) ELSE s

\* App::update whose Action arm offers the action to every registered plugin
update_OffersToRegistered(s, msg) ==
    CASE msg.type = "None" -> Result(s, <<>>)
      [] msg.type = "Action" -> PerformAll(s, Consult(s.plugin_host, s, msg.action))
      [] msg.type = "GenericAction" -> perform_action(s, msg.action)
      [] msg.type = "LoadTheme" -> Result(set_theme(s, msg.id), <<>>)
      [] msg.type = "SavedFile" -> Result(SavedFile(s, msg.id), <<>>)
      [] msg.type = "OnKeyPress" ->
            LET m == on_key_press(s, msg.key, msg.control, msg.alt)
            IN  IF IsSome(m) THEN Result(s, <<TaskDone(Unwrap(m))>>) ELSE Result(s, <<>>)
      [] msg.type = "LoadPlugin" -> Result(LoadPlugin(s, msg.id, msg.load), <<>>)
      [] msg.type = "TextEditorAction" ->
            Result(TextEditorAction(s, msg.action, msg.id), <<>>)
      [] msg.type = "OpenedFile" -> Result(OpenedFile(s, msg), <<>>)

\* theming::Catalog::new and Catalog::insert: the ids of the themes it holds
CatalogNew == {}

CatalogInsert(themes, id) == themes \cup {id}

\* AppMessage::AddTheme; themes is the theme catalog of the state
AddTheme(s, id) == [s EXCEPT !.themes = CatalogInsert(s.themes, id)]

\* App::update
update(s, msg) ==
    CASE msg.type = "None" -> Result(s, <<>>)
      [] msg.type = "Action" -> PerformAll(s, process_action(s, msg.action))
      [] msg.type = "GenericAction" -> perform_action(s, msg.action)
      [] msg.type = "AddTheme" -> Result(AddTheme(s, msg.id), <<>>)
      [] msg.type = "LoadTheme" -> Result(set_theme(s, msg.id), <<>>)
      [] msg.type = "SavedFile" -> Result(SavedFile(s, msg.id), <<>>)
      [] msg.type = "OnKeyPress" ->
            LET m == on_key_press(s, msg.key, msg.control, msg.alt)
            IN  IF IsSome(m) THEN Result(s, <<TaskDone(Unwrap(m))>>) ELSE Result(s, <<>>)
      [] msg.type = "LoadPlugin" -> Result(LoadPlugin(s, msg.id, msg.load), <<>>)
      [] msg.type = "TextEditorAction" ->
            Result(TextEditorAction(s, msg.action, msg.id), <<>>)
      [] msg.type = "OpenedFile" -> Result(OpenedFile(s, msg), <<>>)

-----------------------------------------------------------------------------
(* The session: App::new, and one step per message the runtime hands to update *)

\* the paths main computes at start-up
Workdir == <<"home", "strelka">>
ConfigDir == <<"home", "strelka", ".config">>
DEFAULT_THEME == "core.light"

\* the config main hands to App::new
StartConfig ==
    ConfigInsert(ConfigInsert(ConfigInsert(ConfigNew,
        "system", "workdir", Workdir),
        "system", "config_dir", ConfigDir),
        "system", "theme", DEFAULT_THEME)

\* App::new: the plugins registered, one NewDocument pane, focused; no documents
AppNew ==
    [documents |-> DocumentStoreNew,
     panes |-> PaneOpen(PaneAdd(PaneModelNew, NewDocument), 0),
     config |-> StartConfig,
     theme |-> DEFAULT_THEME,
     plugin_host |-> register_plugin(PluginHostNew, ExampleId, ExamplePlugin)]

\* the tasks of App::new that skip the plugin registered first
StartTasks_SkipsFirst(s) ==
    [i \in 1..(Len(s.plugin_host) - 1) |->
        TaskDone(MsgLoadPlugin(get_plugin_ids(s.plugin_host)[i + 1], TRUE))]

\* the tasks App::new returns that load the plugins, one per registered plugin
StartTasks(s) ==
    [i \in 1..Len(s.plugin_host) |->
        TaskDone(MsgLoadPlugin(get_plugin_ids(s.plugin_host)[i], TRUE))]

\* the session once every message of the start-up tasks has been processed
RECURSIVE Deliver(_, _)
Deliver(s, ts) ==
    IF ts = <<>> THEN s ELSE Deliver(update(s, Head(ts).msg).state, Tail(ts))

AppStarted == Deliver(AppNew, StartTasks(AppNew))

\* no update call since the view was last rendered
MsgIdle == [type |-> "Idle"]

\* the session after start-up, with no task left running
Init ==
    /\ state = AppStarted
    /\ tasks = <<>>
    /\ last = MsgIdle
    /\ pre = AppStarted
    /\ emitted = <<>>

\* the state stays within the bounds of the model; the tasks running grow to
\* MaxPending at most
WithinBounds(s, ts, panes) ==
    /\ s.documents.next <= MaxDocs + 1
    /\ s.panes.next <= panes
    /\ Len(ts) <= (IF Len(tasks) > MaxPending THEN Len(tasks) ELSE MaxPending)
    /\ \A d \in DOMAIN s.documents.docs : Len(s.documents.docs[d].text) <= MaxText

\* tasks without the one at index i
Without(ts, i) == SubSeq(ts, 1, i - 1) \o SubSeq(ts, i + 1, Len(ts))

\* the runtime calls update(msg); rest are the tasks still running, and the
\* session has room for that many panes
StepIn(msg, rest, panes) ==
    /\ last = MsgIdle
    /\ LET r == update(state, msg)
       IN  /\ WithinBounds(r.state, rest \o r.tasks, panes)
           /\ state' = r.state
           /\ tasks' = rest \o r.tasks
           /\ emitted' = r.tasks
    /\ last' = msg
    /\ pre' = state

Step(msg, rest) == StepIn(msg, rest, MaxPanes)

\* the view, a hotkey or a plugin sends Action(a), a in the universe U
SendActionIn(U, panes) == \E a \in U : StepIn(MsgAction(a), tasks, panes)

SendAction(U) == SendActionIn(U, MaxPanes)

\* a plugin emission is re-injected as GenericAction(a)
SendGenericAction(U) == \E a \in U : Step(MsgGenericAction(a), tasks)

\* pane_stack::Message::None
SendNone == Step(MsgNone, tasks)

\* the text editor widget of a pane emits an editor action
SendTextEditorAction ==
    \E action \in EditorActions, id \in DocIds :
        Step(MsgTextEditorAction(action, id), tasks)

\* the keys the subscription delivers
Keys == {KeyCharacter(<<"w">>), KeyCharacter(<<"o">>), KeyCharacter(<<"q">>),
         KeyNamed("Enter")}

KeyPressOf(keys) ==
    \E key \in keys, control \in BOOLEAN, alt \in BOOLEAN :
        Step(MsgOnKeyPress(key, control, alt), tasks)

KeyPress == KeyPressOf(Keys)

\* open_file(path) completes: the content read (one of texts), or an error
ReadDoneIn(texts, panes) ==
    \E i \in 1..Len(tasks) :
        /\ tasks[i].kind = "read"
        /\ \/ \E content \in texts :
                StepIn(MsgOpenedOk(tasks[i].path, content, tasks[i].via),
                       Without(tasks, i), panes)
           \/ StepIn(MsgOpenedErr(tasks[i].via), Without(tasks, i), panes)

ReadDone(texts) == ReadDoneIn(texts, MaxPanes)

\* pick_file(None) completes: the file picked and its content, or an error
PickDoneIn(paths, texts, panes) ==
    \E i \in 1..Len(tasks) :
        /\ tasks[i].kind = "pick"
        /\ \/ \E path \in paths, content \in texts :
                StepIn(MsgOpenedOk(path, content, tasks[i].via),
                       Without(tasks, i), panes)
           \/ StepIn(MsgOpenedErr(tasks[i].via), Without(tasks, i), panes)

PickDone(paths, texts) == PickDoneIn(paths, texts, MaxPanes)

\* save_file completes, whether or not the write succeeded
SaveDone ==
    \E i \in 1..Len(tasks), written \in BOOLEAN :
        /\ tasks[i].kind = "save"
        /\ Step(MsgSavedFile(tasks[i].id, written), Without(tasks, i))

\* Task::done(message) completes
MessageDoneIn(panes) ==
    \E i \in 1..Len(tasks) :
        /\ tasks[i].kind = "done"
        /\ StepIn(tasks[i].msg, Without(tasks, i), panes)

MessageDone == MessageDoneIn(MaxPanes)

\* App::view renders the state; it changes nothing of the session
View ==
    /\ last # MsgIdle
    /\ last' = MsgIdle
    /\ pre' = state
    /\ emitted' = <<>>
    /\ UNCHANGED <<state, tasks>>

(* The session of panes, documents and files: every generic action, through  *)
(* both Action and GenericAction, the hotkeys, and the completions of the    *)
(* tasks they start. Files hold one content and no buffer is edited.         *)
Next ==
    \/ SendAction(GenericActions)
    \/ SendGenericAction(GenericActions)
    \/ SendNone
    \/ KeyPress
    \/ ReadDone({<<"h">>})
    \/ PickDone({PathA}, {<<"h">>})
    \/ SaveDone
    \/ MessageDone
    \/ View

Spec == Init /\ [][Next]_vars

(* The editing session: files of any content are picked, their buffers are   *)
(* edited and saved, panes are closed and documents removed.                 *)
EditActions ==
    {PickFile} \cup {[family |-> "Pane", op |-> "Close", id |-> i] : i \in PaneIds}

EditGenericActions ==
    {[family |-> "Document", op |-> o, id |-> d] : o \in {"Save", "Remove"}, d \in DocIds}

NextEdit ==
    \/ SendAction(EditActions)
    \/ SendGenericAction(EditGenericActions)
    \/ SendTextEditorAction
    \/ PickDone({PathA}, Texts)
    \/ SaveDone
    \/ View

SpecEdit == Init /\ [][NextEdit]_vars

(* The session of files and panes: files are picked and opened while panes   *)
(* are added, focused and closed; the session has room for one pane more, so *)
(* that a file can be opened after a focused pane was closed beside another. *)
MorePanes == MaxPanes + 1

FilesActions ==
    FileActions
    \cup {[family |-> "Pane", op |-> "Add", pane |-> p] : p \in {NewDocument, Buffer}}
    \cup {[family |-> "Pane", op |-> o, id |-> i] :
            o \in {"Close", "Open"}, i \in 0..MorePanes}

NextFiles ==
    \/ SendActionIn(FilesActions, MorePanes)
    \/ ReadDoneIn({<<"h">>}, MorePanes)
    \/ PickDoneIn(Paths, {<<"h">>}, MorePanes)
    \/ View

SpecFiles == Init /\ [][NextFiles]_vars

(* The session of panes: every pane action, on known and unknown ids and    *)
(* with every kind of pane, beside picked files and removed documents.      *)
PanesActions == {PickFile} \cup PaneActions

PanesGenericActions ==
    {[family |-> "Pane", op |-> "Close", id |-> i] : i \in PaneIds}
    \cup {[family |-> "Document", op |-> "Remove", id |-> d] : d \in DocIds}

NextPanes ==
    \/ SendAction(PanesActions)
    \/ SendGenericAction(PanesGenericActions)
    \/ PickDone({PathA}, {<<"h">>})
    \/ View

SpecPanes == Init /\ [][NextPanes]_vars

(* The session of pane ids: every pane action on known, closed and never     *)
(* allocated ids, with documents added and removed directly; no task runs.   *)
PaneOpsGenericActions ==
    PanesGenericActions
    \cup {[family |-> "Document", op |-> "Add", handler |-> h] : h \in Handlers}

NextPaneOps ==
    \/ SendAction(PaneActions)
    \/ SendGenericAction(PaneOpsGenericActions)
    \/ View

SpecPaneOps == Init /\ [][NextPaneOps]_vars

(* The session of the keyboard: every kind of key is pressed with every      *)
(* modifier, and the messages of the hotkeys and the files they pick arrive. *)
KeyUnidentified == <<"Unidentified">>

AllKeys ==
    {KeyCharacter(<<c>>) : c \in {"o", "d", "t", "w", "b", ",", "q"}}
    \cup {KeyCharacter(<<"w", "x">>), KeyCharacter(<<>>), KeyNamed("Enter"), KeyUnidentified}

NextKeys ==
    \/ KeyPressOf(AllKeys)
    \/ MessageDone
    \/ PickDone({PathA}, {<<"h">>})
    \/ View

SpecKeys == Init /\ [][NextKeys]_vars

(* The session of plugins: beside ExamplePlugin the embedding registers the  *)
(* plugin that rewrites Add(Buffer); the start-up tasks are still running,   *)
(* panes are added and closed while plugins are loaded and unloaded.         *)
AppTabs == [AppNew EXCEPT !.plugin_host = register_plugin(@, TabsId, TabsPlugin)]

InitPlugins ==
    /\ state = AppTabs
    /\ tasks = StartTasks(AppTabs)
    /\ last = MsgIdle
    /\ pre = AppTabs
    /\ emitted = <<>>

PluginsActions ==
    {[family |-> "Pane", op |-> "Add", pane |-> p] : p \in {NewDocument, Buffer}}
    \cup {[family |-> "Pane", op |-> "Close", id |-> i] : i \in 0..MorePanes}

\* LoadPlugin(id, load) is delivered for a registered or an unknown id
SendLoadPlugin ==
    \E id \in PluginIds, load \in BOOLEAN :
        StepIn(MsgLoadPlugin(id, load), tasks, MorePanes)

NextPlugins ==
    \/ SendActionIn(PluginsActions, MorePanes)
    \/ SendLoadPlugin
    \/ MessageDoneIn(MorePanes)
    \/ View

SpecPlugins == InitPlugins /\ [][NextPlugins]_vars

-----------------------------------------------------------------------------
(* The legacy session (src/main.rs): App owns the documents map itself and   *)
(* allocates document ids from next_doc_id. The theme, the plugin host, the  *)
(* directory listing and the notification list are left out of its state.    *)

AppDefault == [documents |-> <<>>, next_doc_id |-> 1, opened_doc |-> 0]

MsgPickFile == [type |-> "PickFile"]
MsgOpenFile(path) == [type |-> "OpenFile", path |-> path]
MsgSaveFile == [type |-> "SaveFile"]
MsgFocusDocument(id) == [type |-> "FocusDocument", id |-> id]
MsgCloseDocument(id) == [type |-> "CloseDocument", id |-> id]
MsgSendNotification(text) == [type |-> "SendNotification", text |-> text]
MsgRemoveNotification == [type |-> "RemoveNotification"]

\* Task::perform(delay(5), move |_| RemoveNotification(id))
TaskDelay == [kind |-> "delay"]

\* HashMap::insert: the handler is stored under id, over any earlier one
LegacyInsert(documents, id, handler) ==
    [i \in DOMAIN documents \cup {id} |-> IF i = id THEN handler ELSE documents[i]]

\* HashMap::remove
LegacyRemove(documents, id) == [i \in DOMAIN documents \ {id} |-> documents[i]]

\* AppMessage::SavedFile
LegacySavedFile(s, id) ==
    IF id \in DOMAIN s.documents
    THEN [s EXCEPT !.documents[id].changed = FALSE]
    ELSE s

\* AppMessage::SaveFile: saves the focused document, if there is one
LegacySaveFile(s) ==
    IF s.opened_doc \in DOMAIN s.documents
    THEN Result(s, <<TaskSave(s.opened_doc, s.documents[s.opened_doc].path,
                              s.documents[s.opened_doc].text)>>)
    ELSE Result(s, <<>>)

\* AppMessage::FocusDocument that focuses whatever id it is given
LegacyFocusDocument_Unchecked(s, id) ==
    Result([s EXCEPT !.opened_doc = id],
           <<TaskDone(MsgSendNotification(<<"Focused document", id>>))>>)

\* AppMessage::FocusDocument: any id below the allocator may be focused
LegacyFocusDocument(s, id) ==
    IF id < s.next_doc_id
    THEN Result([s EXCEPT !.opened_doc = id],
                <<TaskDone(MsgSendNotification(<<"Focused document", id>>))>>)
    ELSE Result(s, <<>>)

\* AppMessage::CloseDocument
LegacyCloseDocument(s, id) ==
    IF id \in DOMAIN s.documents
    THEN [s EXCEPT !.documents = LegacyRemove(s.documents, id)]
    ELSE s

\* AppMessage::TextEditorAction
LegacyTextEditorAction(s, action, document) ==
    IF document \in DOMAIN s.documents
    THEN [s EXCEPT !.documents[document] =
            [@ EXCEPT !.changed = IF is_edit(action) THEN TRUE ELSE @,
                      !.text = perform(@, action)]]
    ELSE s

\* OpenedFile(Ok) that stores the document under the smallest free id
LegacyOpenedFileOk_SmallestFree(s, path, content) ==
    LET id == CHOOSE i \in 1..s.next_doc_id :
                /\ i \notin DOMAIN s.documents
                /\ \A j \in 1..(i - 1) : j \in DOMAIN s.documents
        handler == [text |-> content, path |-> path,
                    filename |-> get_file_name(path), changed |-> FALSE]
    IN  Result([s EXCEPT !.documents = LegacyInsert(s.documents, id, handler),
                         !.next_doc_id = s.next_doc_id + 1],
               <<TaskDone(MsgFocusDocument(id)),
                 TaskDone(MsgSendNotification(<<"Opened file", get_file_name(path), id>>))>>)

\* AppMessage::OpenedFile(Ok((path, content)))
LegacyOpenedFileOk(s, path, content) ==
    LET handler == [text |-> content, path |-> path,
                    filename |-> get_file_name(path), changed |-> FALSE]
    IN  Result([s EXCEPT !.documents = LegacyInsert(s.documents, s.next_doc_id, handler),
                         !.next_doc_id = s.next_doc_id + 1],
               <<TaskDone(MsgFocusDocument(s.next_doc_id)),
                 TaskDone(MsgSendNotification(
                    <<"Opened file", get_file_name(path), s.next_doc_id>>))>>)

\* App::update of the legacy session
LegacyUpdate(s, msg) ==
    CASE msg.type = "SavedFile" -> Result(LegacySavedFile(s, msg.id), <<>>)
      [] msg.type = "SaveFile" -> LegacySaveFile(s)
      [] msg.type = "FocusDocument" -> LegacyFocusDocument(s, msg.id)
      [] msg.type = "CloseDocument" -> Result(LegacyCloseDocument(s, msg.id), <<>>)
      [] msg.type = "SendNotification" -> Result(s, <<TaskDelay>>)
      [] msg.type = "RemoveNotification" -> Result(s, <<>>)
      [] msg.type = "TextEditorAction" ->
            Result(LegacyTextEditorAction(s, msg.action, msg.id), <<>>)
      [] msg.type = "OpenedFile" ->
            IF msg.ok THEN LegacyOpenedFileOk(s, msg.path, msg.content)
            ELSE Result(s, <<>>)
      [] msg.type = "PickFile" -> Result(s, <<TaskPick>>)
      [] msg.type = "OpenFile" -> Result(s, <<TaskRead(msg.path, "OpenFile")>>)

LegacyInit ==
    /\ state = AppDefault
    /\ tasks = <<>>
    /\ last = MsgIdle
    /\ pre = AppDefault
    /\ emitted = <<>>

\* OpenedFile batches two tasks, so the legacy run loop holds one task more
LegacyPending == MaxPending + 1

LegacyWithinBounds(s, ts) ==
    /\ s.next_doc_id <= MaxDocs + 1
    /\ Len(ts) <= LegacyPending
    /\ \A d \in DOMAIN s.documents : Len(s.documents[d].text) <= MaxText

\* the runtime calls update(msg) of the legacy session
LegacyStep(msg, rest) ==
    /\ last = MsgIdle
    /\ LET r == LegacyUpdate(state, msg)
       IN  /\ LegacyWithinBounds(r.state, rest \o r.tasks)
           /\ state' = r.state
           /\ tasks' = rest \o r.tasks
           /\ emitted' = r.tasks
    /\ last' = msg
    /\ pre' = state

\* the tab bar focuses or closes a document
LegacyTab ==
    \E id \in 0..(MaxDocs + 1) :
        \/ LegacyStep(MsgFocusDocument(id), tasks)
        \/ LegacyStep(MsgCloseDocument(id), tasks)

\* the editor pane asks for a file, the file explorer opens one
LegacyOpen ==
    \/ LegacyStep(MsgPickFile, tasks)
    \/ LegacyStep(MsgOpenFile(PathA), tasks)

\* Ctrl-s
LegacySave == LegacyStep(MsgSaveFile, tasks)

LegacyEdit ==
    \E action \in EditorActions, id \in DocIds :
        LegacyStep(MsgTextEditorAction(action, id), tasks)

\* a task of the legacy session completes and its message is processed
LegacyTaskDone ==
    \E i \in 1..Len(tasks) :
        LET rest == Without(tasks, i)
        IN  CASE tasks[i].kind = "pick" ->
                    \/ \E path \in Paths :
                            LegacyStep(MsgOpenedOk(path, <<"h">>, "PickFile"), rest)
                    \/ LegacyStep(MsgOpenedErr("PickFile"), rest)
              [] tasks[i].kind = "read" ->
                    \/ LegacyStep(MsgOpenedOk(tasks[i].path, <<"h">>, "OpenFile"), rest)
                    \/ LegacyStep(MsgOpenedErr("OpenFile"), rest)
              [] tasks[i].kind = "save" ->
                    \E written \in BOOLEAN :
                        LegacyStep(MsgSavedFile(tasks[i].id, written), rest)
              [] tasks[i].kind = "done" -> LegacyStep(tasks[i].msg, rest)
              [] tasks[i].kind = "delay" -> LegacyStep(MsgRemoveNotification, rest)

\* the legacy session of documents: files are opened, documents focused,
\* saved and closed; no buffer is edited
LegacyNext ==
    \/ LegacyTab
    \/ LegacyOpen
    \/ LegacySave
    \/ LegacyTaskDone
    \/ View

SpecLegacy == LegacyInit /\ [][LegacyNext]_vars

-----------------------------------------------------------------------------
(* Start-up (gui/src/main.rs main): the session config is built from the     *)
(* paths main computes and from what system.toml holds on disk.              *)

\* a directory other than the ones main computes
OtherDir == <<"mnt", "elsewhere">>

\* the config a system.toml parses to: each of the three system properties is
\* set or left out
DiskConfig(theme, workdir, config_dir) ==
    LET c1 == IF IsSome(theme)
              THEN ConfigInsert(ConfigNew, "system", "theme", Unwrap(theme))
              ELSE ConfigNew
        c2 == IF IsSome(workdir)
              THEN ConfigInsert(c1, "system", "workdir", Unwrap(workdir))
              ELSE c1
    IN  IF IsSome(config_dir)
        THEN ConfigInsert(c2, "system", "config_dir", Unwrap(config_dir))
        ELSE c2

\* what main finds on disk: no system.toml, or one that parses
DiskFiles ==
    {None} \cup
    {Some(DiskConfig(theme, workdir, config_dir)) :
        theme \in {None, Some("core.light"), Some("core.dark")},
        workdir \in {None, Some(OtherDir)},
        config_dir \in {None, Some(OtherDir)}}

\* main: the config handed to App::new
MainConfig(file) ==
    LET config == ConfigInsert(ConfigInsert(ConfigNew,
                        "system", "workdir", Workdir),
                        "system", "config_dir", ConfigDir)
        default_config == ConfigInsert(ConfigNew, "system", "theme", DEFAULT_THEME)
        system_config == load_or_create_default(file, default_config)
    IN  ConfigMerge(config, system_config)

\* App::new(config) with the config main built
AppOn(file) == [AppNew EXCEPT !.config = MainConfig(file)]

\* the theme App::new applies: system.theme of the config, or DEFAULT_THEME
ConfigTheme(s) ==
    IF IsSome(ConfigGet(s.config, "system", "theme"))
    THEN Unwrap(ConfigGet(s.config, "system", "theme"))
    ELSE DEFAULT_THEME

\* the tasks App::new returns: the plugin loads and the theme to apply
StartupTasks(s) == StartTasks(s) \o <<TaskDone(MsgLoadTheme(ConfigTheme(s)))>>

InitStartup ==
    \E file \in DiskFiles :
        /\ state = AppOn(file)
        /\ tasks = StartupTasks(AppOn(file))
        /\ last = MsgIdle
        /\ pre = AppOn(file)
        /\ emitted = <<>>

StartupActions ==
    {[family |-> "Pane", op |-> "Add", pane |-> p] : p \in {NewDocument, ConfigPane}}
    \cup {[family |-> "Pane", op |-> "Close", id |-> i] : i \in PaneIds}

\* the start-up tasks complete while panes are opened and closed
NextStartup ==
    \/ SendAction(StartupActions)
    \/ MessageDone
    \/ View

SpecStartup == InitStartup /\ [][NextStartup]_vars

-----------------------------------------------------------------------------
(* The config store on its own (config/src/lib.rs): state is one Config, on  *)
(* which insert, remove_property and merge are called with every argument.   *)

Namespaces == {"system", "editor"}

\* the properties a namespace may hold
PropsOf(ns) == IF ns = "system" THEN {"theme", "scale"} ELSE {"theme"}

ConfigValues == {"core.light", "core.dark"}

\* every (namespace, property) pair
ConfigAllKeys == UNION {{<<ns, p>> : p \in PropsOf(ns)} : ns \in Namespaces}

\* the property maps of a namespace, the empty one included
NamespaceMaps(ns) == UNION {[P -> ConfigValues] : P \in SUBSET PropsOf(ns)}

\* every Config over these namespaces, properties and values
Configs ==
    UNION {{c \in [N -> UNION {NamespaceMaps(ns) : ns \in Namespaces}] :
                \A ns \in N : c[ns] \in NamespaceMaps(ns)} : N \in SUBSET Namespaces}

InitConfig ==
    /\ state \in Configs
    /\ tasks = <<>>
    /\ last = MsgIdle
    /\ pre = state
    /\ emitted = <<>>

\* c.insert(ns, p, v) followed by c.get(ns, p)
ConfigInsertCall ==
    /\ last = MsgIdle
    /\ \E key \in ConfigAllKeys, v \in ConfigValues :
          /\ state' = ConfigInsert(state, key[1], key[2], v)
          /\ last' = [type |-> "insert", ns |-> key[1], p |-> key[2], v |-> v,
                      got |-> ConfigGet(ConfigInsert(state, key[1], key[2], v),
                                        key[1], key[2])]
    /\ pre' = state
    /\ UNCHANGED <<tasks, emitted>>

\* c.remove_property(ns, p)
ConfigRemoveCall ==
    /\ last = MsgIdle
    /\ \E key \in ConfigAllKeys :
          /\ state' = ConfigRemoveProperty(state, key[1], key[2])
          /\ last' = [type |-> "remove_property", ns |-> key[1], p |-> key[2],
                      got |-> ConfigGet(state, key[1], key[2])]
    /\ pre' = state
    /\ UNCHANGED <<tasks, emitted>>

\* c.merge(other)
ConfigMergeCall ==
    /\ last = MsgIdle
    /\ \E other \in Configs :
          /\ state' = ConfigMerge(state, other)
          /\ last' = [type |-> "merge", other |-> other]
    /\ pre' = state
    /\ UNCHANGED <<tasks, emitted>>

NextConfig ==
    \/ ConfigInsertCall
    \/ ConfigRemoveCall
    \/ ConfigMergeCall
    \/ View

SpecConfig == InitConfig /\ [][NextConfig]_vars

-----------------------------------------------------------------------------
(* The session of the focus: panes are added, focused, replaced and closed   *)
(* and files are picked; the session has room for one pane more, so that a   *)
(* file can be opened and the last pane closed after the focus was cleared.  *)
FocusActions ==
    {PickFile}
    \cup {[family |-> "Pane", op |-> o, id |-> i] : o \in {"Close", "Open"}, i \in PaneIds}
    \cup {[family |-> "Pane", op |-> "Add", pane |-> p] : p \in {NewDocument, Buffer}}
    \cup {[family |-> "Pane", op |-> "Replace", id |-> i, pane |-> p] :
            i \in PaneIds, p \in {NewDocument, Buffer}}

NextFocus ==
    \/ SendActionIn(FocusActions, MorePanes)
    \/ PickDoneIn({PathA}, {<<"h">>}, MorePanes)
    \/ View

SpecFocus == Init /\ [][NextFocus]_vars

-----------------------------------------------------------------------------
(* The session of the user interface: only the messages the view and the     *)
(* default hotkeys produce arrive, with the completions of the file tasks    *)
(* and SavedFile messages.                                                   *)
UiActions ==
    FileActions
    \cup {[family |-> "Pane", op |-> "Add", pane |-> p] :
            p \in {NewDocument, Buffer, ConfigPane}}
    \cup {[family |-> "Pane", op |-> o, id |-> i] : o \in {"Close", "Open"}, i \in PaneIds}

\* an edit of the buffer shown in an Editor pane
UiTextEditorAction ==
    \E action \in {EditInsert, MoveCursor}, id \in DocIds :
        Step(MsgTextEditorAction(action, id), tasks)

\* the completion message of a write arrives
UiSavedFile == \E id \in DocIds : Step(MsgSavedFile(id, TRUE), tasks)

NextUi ==
    \/ SendAction(UiActions)
    \/ UiTextEditorAction
    \/ UiSavedFile
    \/ ReadDone({<<"h">>})
    \/ PickDone({PathA}, {<<"h">>})
    \/ View

SpecUi == Init /\ [][NextUi]_vars

-----------------------------------------------------------------------------
(* The session of saves and edits: a file is picked, its buffer is edited    *)
(* and saved, and the completion of a write records the text that was        *)
(* written.                                                                  *)
RaceGenericActions == {[family |-> "Document", op |-> "Save", id |-> d] : d \in DocIds}

\* save_file completes after writing the text the task was given; text records
\* what was written, the message does not carry it
WriteDone ==
    \E i \in 1..Len(tasks) :
        /\ tasks[i].kind = "save"
        /\ Step(MsgSavedFile(tasks[i].id, TRUE) @@ [text |-> tasks[i].text],
                Without(tasks, i))

NextRace ==
    \/ SendAction({PickFile})
    \/ SendGenericAction(RaceGenericActions)
    \/ SendTextEditorAction
    \/ PickDone({PathA}, Texts)
    \/ WriteDone
    \/ View

SpecRace == Init /\ [][NextRace]_vars

-----------------------------------------------------------------------------
(* Start-up of the session (App::new): the catalog is empty, every plugin is *)
(* Registered, and the tasks App::new returns are running: one LoadPlugin    *)
(* per plugin, and the themes of ./themes followed by the theme to apply.    *)

\* the ids of the themes get_themes finds in ./themes, in the order of its
\* stream
ThemeDir == <<"core.light", "core.dark">>

\* App::new with the catalog of themes, empty
AppBoot(file) == AppOn(file) @@ [themes |-> CatalogNew]

\* the tasks App::new batches whose theme tasks are batched, not chained
NewTasks_Batched(s) ==
    StartTasks(s)
    \o <<TaskRun([i \in 1..Len(ThemeDir) |-> MsgAddTheme(ThemeDir[i])]),
         TaskRun(<<MsgLoadTheme(ConfigTheme(s))>>)>>

\* the tasks App::new batches: the plugin loads, and read_themes chained with
\* apply_theme
NewTasks(s) ==
    StartTasks(s)
    \o <<TaskRun([i \in 1..Len(ThemeDir) |-> MsgAddTheme(ThemeDir[i])]
                 \o <<MsgLoadTheme(ConfigTheme(s))>>)>>

InitBoot ==
    \E file \in DiskFiles :
        /\ state = AppBoot(file)
        /\ tasks = NewTasks(AppBoot(file))
        /\ last = MsgIdle
        /\ pre = AppBoot(file)
        /\ emitted = <<>>

\* a stream task yields its next message, and ends after the last one
RunNext ==
    \E i \in 1..Len(tasks) :
        /\ tasks[i].kind = "run"
        /\ StepIn(Head(tasks[i].msgs),
                  IF Len(tasks[i].msgs) > 1
                  THEN [tasks EXCEPT ![i] = TaskRun(Tail(tasks[i].msgs))]
                  ELSE Without(tasks, i),
                  MaxPanes)

BootActions ==
    {[family |-> "Pane", op |-> "Add", pane |-> NewDocument]}
    \cup {[family |-> "Pane", op |-> "Close", id |-> i] : i \in PaneIds}

\* the start-up tasks complete in any order while panes are opened and closed
NextBoot ==
    \/ RunNext
    \/ MessageDone
    \/ SendAction(BootActions)
    \/ View

SpecBoot == InitBoot /\ [][NextBoot]_vars

\* the runtime runs every task to its end and hands each message to update,
\* however many messages of the view arrive in between, and renders the view
\* after every update call
FairBoot == SpecBoot /\ SF_vars(RunNext) /\ SF_vars(MessageDone) /\ WF_vars(View)

-----------------------------------------------------------------------------
(* The button widget (widget/src/button.rs): the State kept in the widget    *)
(* tree and the events on_event receives. The content of the button is any   *)
(* element: whether it captures an event is an input of each call, as are    *)
(* the position of the cursor and the on_press the button was built with.    *)

\* State::default()
ButtonState == [is_pressed |-> FALSE]

\* Mouse(ButtonPressed(Left)) and Touch(FingerPressed)
PressEvents == {"ButtonPressed(Left)", "FingerPressed"}

\* Mouse(ButtonReleased(Left)) and Touch(FingerLifted)
ReleaseEvents == {"ButtonReleased(Left)", "FingerLifted"}

\* events of the last arm of the match
OtherEvents == {"ButtonPressed(Right)", "ButtonReleased(Right)", "CursorMoved"}

\* Button::on_event whose release arm publishes without clearing is_pressed
on_event_KeepsPressed(s, event, over, captured, on_press) ==
    IF captured
    THEN [state |-> s, published |-> <<>>, status |-> "Captured"]
    ELSE IF event \in PressEvents
    THEN IF over
         THEN [state |-> [s EXCEPT !.is_pressed = TRUE],
               published |-> <<>>, status |-> "Captured"]
         ELSE [state |-> s, published |-> <<>>, status |-> "Ignored"]
    ELSE IF event \in ReleaseEvents
    THEN IF s.is_pressed
         THEN [state |-> s,
               published |-> IF on_press /\ over THEN <<"on_press">> ELSE <<>>,
               status |-> "Captured"]
         ELSE [state |-> s, published |-> <<>>, status |-> "Ignored"]
    ELSE IF event = "FingerLost"
    THEN [state |-> [s EXCEPT !.is_pressed = FALSE],
          published |-> <<>>, status |-> "Ignored"]
    ELSE [state |-> s, published |-> <<>>, status |-> "Ignored"]

\* Button::on_event: the state after the call, the messages given to
\* shell.publish and the status returned. captured is the status of the
\* content, over is cursor.is_over(layout.bounds()), on_press is
\* self.on_press.is_some()
on_event(s, event, over, captured, on_press) ==
    IF captured
    THEN [state |-> s, published |-> <<>>, status |-> "Captured"]
    ELSE IF event \in PressEvents
    THEN IF over
         THEN [state |-> [s EXCEPT !.is_pressed = TRUE],
               published |-> <<>>, status |-> "Captured"]
         ELSE [state |-> s, published |-> <<>>, status |-> "Ignored"]
    ELSE IF event \in ReleaseEvents
    THEN IF s.is_pressed
         THEN [state |-> [s EXCEPT !.is_pressed = FALSE],
               published |-> IF on_press /\ over THEN <<"on_press">> ELSE <<>>,
               status |-> "Captured"]
         ELSE [state |-> s, published |-> <<>>, status |-> "Ignored"]
    ELSE IF event = "FingerLost"
    THEN [state |-> [s EXCEPT !.is_pressed = FALSE],
          published |-> <<>>, status |-> "Ignored"]
    ELSE [state |-> s, published |-> <<>>, status |-> "Ignored"]

\* the button as Widget::state creates it; tasks records what the shell was
\* given so far and how many presses the button accepted
InitButton ==
    /\ state = ButtonState
    /\ tasks = [published |-> <<>>, presses |-> 0]
    /\ last = MsgIdle
    /\ pre = state
    /\ emitted = <<>>

\* one call of on_event by the runtime
ButtonEvent(events) ==
    \E event \in events, over \in BOOLEAN, captured \in BOOLEAN, on_press \in BOOLEAN :
        LET r == on_event(state, event, over, captured, on_press)
            accepted == event \in PressEvents /\ r.status = "Captured" /\ ~captured
        IN  /\ accepted => tasks.presses < MaxPresses
            /\ state' = r.state
            /\ tasks' = [published |-> tasks.published \o r.published,
                         presses |-> tasks.presses + (IF accepted THEN 1 ELSE 0)]
            /\ last' = [type |-> "on_event", event |-> event, over |-> over,
                        captured |-> captured, on_press |-> on_press,
                        status |-> r.status]
            /\ pre' = state
            /\ emitted' = r.published

NextButton ==
    \/ ButtonEvent(PressEvents)
    \/ ButtonEvent(ReleaseEvents)
    \/ ButtonEvent({"FingerLost"})
    \/ ButtonEvent(OtherEvents)

SpecButton == InitButton /\ [][NextButton]_vars

-----------------------------------------------------------------------------
(* Properties of the session *)

\* the generic actions the latest update call applied, in order
AppliedActions ==
    CASE last.type = "Action" -> process_action(pre, last.action)
      [] last.type = "GenericAction" -> <<last.action>>
      [] OTHER -> <<>>

\* the latest update call applied exactly the generic action a
Applied(a) == AppliedActions = <<a>>

ActClose(id) == [family |-> "Pane", op |-> "Close", id |-> id]

\* the ids of the panes of pm that hold Editor(d)
Referencing(pm, d) == {i \in DOMAIN pm.panes : pm.panes[i] = Editor(d)}

\* C1: after PaneAction::Close(id) of a pane holding Editor(d) that no other
\* pane references, pane id is gone from the pane model and d is gone from the
\* document store.
C1_CloseRemovesDocument ==
    \A id \in PaneIds, d \in DocIds :
        (Applied(ActClose(id)) /\ Referencing(pre.panes, d) = {id})
            => ~PaneHas(state.panes, id) /\ ~DocHas(state.documents, d)

\* a Close(id) of the only pane showing a document of the store was applied
C1_Witness ==
    \E id \in PaneIds, d \in DocIds :
        /\ Applied(ActClose(id))
        /\ Referencing(pre.panes, d) = {id}
        /\ DocHas(pre.documents, d)
        /\ PaneCount(pre.panes) > 1

\* C2: when PaneAction::Close(id) removes the only remaining pane, the pane
\* model then holds exactly one pane, a NewDocument, focused, under an id that
\* is not id and was never allocated before.
C2_CloseLastSeedsNewDocument ==
    \A id \in PaneIds :
        (Applied(ActClose(id)) /\ DOMAIN pre.panes.panes = {id})
            => \E p \in DOMAIN state.panes.panes :
                /\ DOMAIN state.panes.panes = {p}
                /\ state.panes.panes[p] = NewDocument
                /\ state.panes.open = Some(p)
                /\ p # id
                /\ p \notin 0..(pre.panes.next - 1)

\* the only pane, an Editor, was closed
C2_Witness ==
    \E id \in PaneIds :
        /\ Applied(ActClose(id))
        /\ DOMAIN pre.panes.panes = {id}
        /\ pre.panes.panes[id][1] = "Editor"

\* the handler stored under document id d
Doc(s, d) == s.documents.docs[d]

\* every part of the session but the handlers is as before the update call
OnlyHandlersChanged ==
    /\ state.panes = pre.panes
    /\ state.config = pre.config
    /\ state.theme = pre.theme
    /\ state.documents.next = pre.documents.next
    /\ DOMAIN state.documents.docs = DOMAIN pre.documents.docs

\* C3: a TextEditorAction on an existing document sets changed when the action
\* is an edit, and leaves changed as it was when it is not.
C3_EditSetsChanged ==
    (last.type = "TextEditorAction" /\ DocHas(pre.documents, last.id))
        => /\ DocHas(state.documents, last.id)
           /\ Doc(state, last.id).changed =
                IF last.action \in {EditInsert, EditBackspace}
                THEN TRUE ELSE Doc(pre, last.id).changed

\* an edit reached a clean document, and it is now marked changed
C3_Witness ==
    /\ last.type = "TextEditorAction"
    /\ last.action = EditBackspace
    /\ DocHas(pre.documents, last.id)
    /\ ~Doc(pre, last.id).changed
    /\ Doc(state, last.id).changed

\* C4: SavedFile(id) sets changed to false on document id exactly when id is
\* in the store; when it is not, nothing of the session changes and no
\* document is created; no other document is touched.
C4_SavedFileClearsChanged ==
    last.type = "SavedFile"
        => /\ OnlyHandlersChanged
           /\ \A d \in DOMAIN pre.documents.docs :
                Doc(state, d) = IF d = last.id
                                THEN [Doc(pre, d) EXCEPT !.changed = FALSE]
                                ELSE Doc(pre, d)

\* SavedFile(id) cleared the flag of id while another document stayed changed
C4_Witness ==
    /\ last.type = "SavedFile"
    /\ DocHas(pre.documents, last.id)
    /\ Doc(pre, last.id).changed
    /\ ~Doc(state, last.id).changed
    /\ \E d \in DOMAIN state.documents.docs : d # last.id /\ Doc(state, d).changed

\* C5: when the write of DocumentAction::Save(id) failed, the completion of the
\* save leaves the session as it was (changed of id stays as it was).
C5_FailedSaveChangesNothing ==
    (last.type = "SavedFile" /\ ~last.written) => state = pre

\* C6: a SavedFile(d) processed after d was removed from the store changes
\* nothing of the session and does not create d again.
C6_LateSavedFileIsNoOp ==
    (last.type = "SavedFile" /\ ~DocHas(pre.documents, last.id))
        => /\ state.documents = pre.documents
           /\ state.panes = pre.panes
           /\ state.config = pre.config
           /\ ~DocHas(state.documents, last.id)

\* the save of a document completed after the document was removed
C6_Witness ==
    /\ last.type = "SavedFile"
    /\ ~DocHas(pre.documents, last.id)
    /\ last.id < pre.documents.next

\* the documents the latest update call added to the store
NewDocs == DOMAIN state.documents.docs \ DOMAIN pre.documents.docs

\* the panes the latest update call added to the pane model
NewPanes == DOMAIN state.panes.panes \ DOMAIN pre.panes.panes

\* the latest update call added exactly document d, read from last.path
AddedDocument(d) ==
    /\ NewDocs = {d}
    /\ DOMAIN state.documents.docs = DOMAIN pre.documents.docs \cup {d}
    /\ Doc(state, d).text = last.content
    /\ Doc(state, d).path = last.path
    /\ (last.path = PathA => Doc(state, d).filename = "a.txt")
    /\ (last.path = PathB => Doc(state, d).filename = "b.txt")
    /\ Doc(state, d).changed = FALSE
    /\ \A e \in DOMAIN pre.documents.docs : Doc(state, e) = Doc(pre, e)

\* C7: OpenedFile(Ok((path, content))) with a NewDocument pane focused adds
\* exactly one document (text = content, filename from path, clean) and puts
\* Editor(new id) in the focused pane: same pane id, still focused, same panes.
C7_OpenedFileReplacesNewDocument ==
    (last.type = "OpenedFile" /\ last.ok /\ PaneGetOpen(pre.panes) = Some(NewDocument))
        => \E d \in DocIds :
            /\ AddedDocument(d)
            /\ state.panes.open = pre.panes.open
            /\ state.panes.next = pre.panes.next
            /\ DOMAIN state.panes.panes = DOMAIN pre.panes.panes
            /\ \A i \in DOMAIN pre.panes.panes :
                state.panes.panes[i] =
                    IF Some(i) = pre.panes.open THEN Editor(d) ELSE pre.panes.panes[i]

\* b.txt was opened over a focused NewDocument pane, beside another pane
C7_Witness ==
    /\ last.type = "OpenedFile"
    /\ last.ok
    /\ last.path = PathB
    /\ last.content = <<"h">>
    /\ PaneGetOpen(pre.panes) = Some(NewDocument)
    /\ PaneCount(pre.panes) > 1

\* C8: OpenedFile(Ok) with a focused pane that is not NewDocument, or with no
\* focused pane, adds exactly one document and exactly one pane Editor(new id),
\* under a fresh pane id, focused; the other panes keep their ids and content.
C8_OpenedFileAddsPane ==
    (last.type = "OpenedFile" /\ last.ok /\ PaneGetOpen(pre.panes) # Some(NewDocument))
        => \E d \in DocIds, p \in 0..MorePanes :
            /\ AddedDocument(d)
            /\ NewPanes = {p}
            /\ p \notin 0..(pre.panes.next - 1)
            /\ DOMAIN state.panes.panes = DOMAIN pre.panes.panes \cup {p}
            /\ state.panes.panes[p] = Editor(d)
            /\ state.panes.open = Some(p)
            /\ \A i \in DOMAIN pre.panes.panes : state.panes.panes[i] = pre.panes.panes[i]

\* a file was opened while no pane was focused, beside a Buffer pane
C8_Witness ==
    /\ last.type = "OpenedFile"
    /\ last.ok
    /\ pre.panes.open = None
    /\ \E i \in DOMAIN pre.panes.panes : pre.panes.panes[i] = Buffer
    /\ PaneCount(state.panes) = PaneCount(pre.panes) + 1

\* C9: OpenedFile(Err(())) changes nothing of the session and emits no message.
C9_OpenedFileErrIsNoOp ==
    (last.type = "OpenedFile" /\ ~last.ok) => state = pre /\ emitted = <<>>

\* a read failed with a document open
C9_Witness ==
    /\ last.type = "OpenedFile"
    /\ ~last.ok
    /\ last.via = "OpenFileCurrentTab"
    /\ pre.documents.docs # <<>>

\* C10: a successful read started by OpenFileForceCurrentTab puts the Editor of
\* the new document in the focused pane, whatever it held; no pane is added.
C10_ForceCurrentTabReplaces ==
    (/\ last.type = "OpenedFile"
     /\ last.ok
     /\ last.via = "OpenFileForceCurrentTab"
     /\ IsSome(PaneGetOpen(pre.panes)))
        => /\ DOMAIN state.panes.panes = DOMAIN pre.panes.panes
           /\ PaneGetOpen(state.panes) = Some(Editor(pre.documents.next))
           /\ state.panes.open = pre.panes.open

\* C11: a successful read started by OpenFileNewTab adds one pane holding the
\* Editor of the new document and replaces no pane, even when a NewDocument
\* pane is focused.
C11_NewTabAlwaysAdds ==
    (last.type = "OpenedFile" /\ last.ok /\ last.via = "OpenFileNewTab")
        => /\ PaneCount(state.panes) = PaneCount(pre.panes) + 1
           /\ \A i \in DOMAIN pre.panes.panes :
                /\ PaneHas(state.panes, i)
                /\ state.panes.panes[i] = pre.panes.panes[i]
           /\ \E p \in NewPanes : state.panes.panes[p] = Editor(pre.documents.next)

\* the document ids the latest update call of the legacy session handed out
LegacyNewDocs == DOMAIN state.documents \ DOMAIN pre.documents

\* C12: every document id handed out is greater than every id handed out
\* before it: the ids handed out so far are those below next_doc_id, which
\* never decreases, and a new id is never below it, even after a removal.
C12_DocumentIdsNeverReused ==
    /\ \A d \in DOMAIN state.documents : d < state.next_doc_id
    /\ state.next_doc_id >= pre.next_doc_id
    /\ \A d \in LegacyNewDocs :
        /\ d >= pre.next_doc_id
        /\ \A e \in DOMAIN pre.documents : d > e

\* a document was added after the document with the only earlier id was closed
C12_Witness ==
    /\ last.type = "OpenedFile"
    /\ last.ok
    /\ pre.next_doc_id > 1
    /\ pre.documents = <<>>
    /\ LegacyNewDocs = {pre.next_doc_id}

\* the latest update call applied one pane action of kind op on an id that was
\* not in the pane model
UnknownPane(op) ==
    /\ Len(AppliedActions) = 1
    /\ AppliedActions[1].family = "Pane"
    /\ AppliedActions[1].op = op
    /\ ~PaneHas(pre.panes, AppliedActions[1].id)

\* C13: PaneAction::Close, Open and Replace on a pane id that is not in the
\* pane model change neither the panes, their content, the focus and the
\* allocator nor the document store, and schedule nothing.
C13_UnknownPaneIsNoOp ==
    (UnknownPane("Close") \/ UnknownPane("Open") \/ UnknownPane("Replace"))
        => /\ state.panes = pre.panes
           /\ state.documents = pre.documents
           /\ emitted = <<>>

\* Replace named a pane closed earlier, with an Editor of a stored document
C13_Witness ==
    /\ UnknownPane("Replace")
    /\ AppliedActions[1].id < pre.panes.next
    /\ \E d \in DOMAIN pre.documents.docs : AppliedActions[1].pane = Editor(d)

\* the latest update call applied one document action of kind Open, Save or
\* Remove on an id that was not in the document store
UnknownDocument ==
    /\ Len(AppliedActions) = 1
    /\ AppliedActions[1].family = "Document"
    /\ AppliedActions[1].op \in {"Open", "Save", "Remove"}
    /\ ~DocHas(pre.documents, AppliedActions[1].id)

\* C14: DocumentAction::Open, Save and Remove on a document id that is not in
\* the store leave documents, panes and focus unchanged, also once every
\* follow-up message they schedule is processed, and no pane comes to hold an
\* Editor of the missing id.
C14_UnknownDocumentIsNoOp ==
    UnknownDocument
        => /\ state.documents = pre.documents
           /\ state.panes = pre.panes
           /\ \A i \in 1..Len(emitted) :
                emitted[i].kind = "done" =>
                    LET after == update(state, emitted[i].msg).state
                    IN  /\ after.documents = pre.documents
                        /\ after.panes = pre.panes
                        /\ Referencing(after.panes, AppliedActions[1].id) = {}

\* C15: closing one of several panes that hold Editor(d) keeps d in the
\* document store; only the close of the last pane referencing d removes it.
C15_SharedDocumentSurvivesClose ==
    \A id \in PaneIds, d \in DocIds :
        (/\ Applied(ActClose(id))
         /\ id \in Referencing(pre.panes, d)
         /\ Referencing(pre.panes, d) # {id}
         /\ DocHas(pre.documents, d))
            => DocHas(state.documents, d)

AddBuffer == [family |-> "Pane", op |-> "Add", pane |-> Buffer]

\* the latest update call added the panes of kinds, in that order, under the
\* next ids, focused the last of them, and changed nothing else
AddedPanes(kinds) ==
    /\ state.panes.next = pre.panes.next + Len(kinds)
    /\ DOMAIN state.panes.panes =
            DOMAIN pre.panes.panes \cup {pre.panes.next + k - 1 : k \in 1..Len(kinds)}
    /\ \A k \in 1..Len(kinds) : state.panes.panes[pre.panes.next + k - 1] = kinds[k]
    /\ \A i \in DOMAIN pre.panes.panes : state.panes.panes[i] = pre.panes.panes[i]
    /\ state.panes.open = Some(pre.panes.next + Len(kinds) - 1)
    /\ state.documents = pre.documents
    /\ state.plugin_host = pre.plugin_host
    /\ emitted = <<>>

\* C18: when the plugin host turns Action(a) into a list of generic actions,
\* they are applied in list order inside the one update call: with the plugin
\* that rewrites Add(Buffer) into [Add(NewDocument), Add(Buffer)] loaded, the
\* call adds a NewDocument pane, then a Buffer pane, and focuses the Buffer.
C18_ListAppliedInOrder ==
    (/\ last.type = "Action"
     /\ last.action = AddBuffer
     /\ PluginLoaded(pre.plugin_host, TabsId))
        => /\ AddedPanes(<<NewDocument, Buffer>>)
           /\ LET gs == process_action(pre, last.action)
                  r1 == perform_action(pre, gs[1])
                  r2 == perform_action(r1.state, gs[2])
              IN  /\ Len(gs) = 2
                  /\ state = r2.state
                  /\ emitted = r1.tasks \o r2.tasks

\* from the one focused NewDocument pane p0: p1 = NewDocument, p2 = Buffer, focused
C18_Witness ==
    /\ last.type = "Action"
    /\ last.action = AddBuffer
    /\ PluginLoaded(pre.plugin_host, TabsId)
    /\ pre.panes = AppNew.panes
    /\ state.panes.panes = (0 :> NewDocument) @@ (1 :> NewDocument) @@ (2 :> Buffer)
    /\ state.panes.open = Some(2)

\* C19: an action is offered only to plugins in Loaded state: while the plugin
\* that rewrites Add(Buffer) is registered but not loaded (not yet, or no
\* longer), Action(Add(Buffer)) adds the one Buffer pane and nothing else.
C19_OnlyLoadedPluginsRewrite ==
    (/\ last.type = "Action"
     /\ last.action = AddBuffer
     /\ PluginRegistered(pre.plugin_host, TabsId)
     /\ ~PluginLoaded(pre.plugin_host, TabsId))
        => AddedPanes(<<Buffer>>)

\* Add(Buffer) was processed before the start-up LoadPlugin of that plugin
C19_Witness ==
    /\ last.type = "Action"
    /\ last.action = AddBuffer
    /\ ~PluginLoaded(pre.plugin_host, TabsId)
    /\ \E i \in 1..Len(tasks) : tasks[i] = TaskDone(MsgLoadPlugin(TabsId, TRUE))
    /\ PaneCount(state.panes) = PaneCount(pre.panes) + 1

\* C20: when no loaded plugin rewrites action a (process_action returns the
\* singleton list of a), Action(a) changes the session and schedules tasks
\* exactly as GenericAction(a) does.
C20_PassThroughActionIsGenericAction ==
    (last.type = "Action" /\ process_action(pre, last.action) = <<last.action>>)
        => /\ state = update(pre, MsgGenericAction(last.action)).state
           /\ emitted = update(pre, MsgGenericAction(last.action)).tasks

\* Action(DocumentAction::Save(d)) of a stored document scheduled the write
C20_Witness ==
    /\ last.type = "Action"
    /\ last.action.family = "Document"
    /\ last.action.op = "Save"
    /\ DocHas(pre.documents, last.action.id)
    /\ Len(emitted) = 1
    /\ emitted[1].kind = "save"

\* the latest message is a key press of a character key
CharacterPressed == last.type = "OnKeyPress" /\ last.key[1] = "Character"

\* the chord of the latest key press: the first character of the key, and the
\* modifier set its control and alt flags fold to
Chord ==
    [modifiers |-> CASE last.control /\ last.alt -> CtrlAlt
                     [] last.control /\ ~last.alt -> Ctrl
                     [] ~last.control /\ last.alt -> Alt
                     [] OTHER -> NoModifier,
     key |-> IF last.key[2] = <<>> THEN "" ELSE Head(last.key[2])]

\* C16: a key press whose chord is bound emits exactly the message of the
\* bound closure applied to the state at that moment (Ctrl-w: Close of the pane
\* focused then, or None without focus) and does not change the state.
C16_BoundChordEmitsHandlerMessage ==
    (CharacterPressed /\ Chord \in BoundHotKeys)
        => /\ emitted = <<TaskDone(HotKeyHandler(Chord, pre))>>
           /\ state = pre
           /\ (Chord.key = "w" =>
                emitted[1].msg =
                    IF pre.panes.open = None THEN MsgNone
                    ELSE MsgAction(ActClose(Unwrap(pre.panes.open))))

\* Ctrl with the key "wx" closed the focused pane, which was not pane 0
C16_Witness ==
    /\ CharacterPressed
    /\ last.key = KeyCharacter(<<"w", "x">>)
    /\ Chord = HotKey(Ctrl, "w")
    /\ IsSome(pre.panes.open)
    /\ Unwrap(pre.panes.open) > 0
    /\ emitted = <<TaskDone(MsgAction(ActClose(Unwrap(pre.panes.open))))>>

\* C17: a key press of a key that is not a character key, or whose chord has
\* no binding, emits nothing and leaves the whole session as it was.
C17_UnboundKeyIsDropped ==
    (last.type = "OnKeyPress" /\ ~(CharacterPressed /\ Chord \in BoundHotKeys))
        => emitted = <<>> /\ state = pre

\* Ctrl+Alt+w was pressed with documents open
C17_Witness ==
    /\ CharacterPressed
    /\ last.key = KeyCharacter(<<"w">>)
    /\ last.control
    /\ last.alt
    /\ pre.documents.docs # <<>>

\* the latest message is LoadPlugin(id, load)
PluginToggled == last.type = "LoadPlugin"

\* C21: a registered plugin is Registered or Loaded; LoadPlugin(id, load) leaves
\* the plugin with this id Loaded when load is true and Registered when it is
\* false, so repeating either changes nothing; the other plugins, the set of
\* registered ids and the rest of the session stay as they were, and with an
\* id that was never registered the whole session does.
C21_LoadPluginSetsLifecycleState ==
    PluginToggled =>
        /\ emitted = <<>>
        /\ get_plugin_ids(state.plugin_host) = get_plugin_ids(pre.plugin_host)
        /\ \A i \in 1..Len(state.plugin_host) :
              /\ state.plugin_host[i].loaded \in BOOLEAN
              /\ IF state.plugin_host[i].id = last.id
                 THEN state.plugin_host[i].loaded = last.load
                 ELSE state.plugin_host[i] = pre.plugin_host[i]
        /\ [state EXCEPT !.plugin_host = pre.plugin_host] = pre
        /\ PluginLoaded(pre.plugin_host, last.id) = last.load
              => state.plugin_host = pre.plugin_host
        /\ ~PluginRegistered(pre.plugin_host, last.id) => state = pre

\* LoadPlugin(id, false) was delivered to a registered plugin that was already
\* in Registered state, while another plugin is Loaded
C21_Witness ==
    /\ PluginToggled
    /\ ~last.load
    /\ PluginRegistered(pre.plugin_host, last.id)
    /\ ~PluginLoaded(pre.plugin_host, last.id)
    /\ ~PluginLoaded(state.plugin_host, last.id)
    /\ \E i \in 1..Len(state.plugin_host) :
          state.plugin_host[i].id # last.id /\ state.plugin_host[i].loaded

\* C22: after start-up the session config's ("system", "workdir") and
\* ("system", "config_dir") hold the paths main computed, whatever system.toml
\* defines for these two keys.
C22_StartupPathsWin ==
    /\ ConfigGet(state.config, "system", "workdir") = Some(Workdir)
    /\ ConfigGet(state.config, "system", "config_dir") = Some(ConfigDir)

\* C23: after c.insert(ns, p, v), c.get(ns, p) returns Some(v), whether the
\* namespace or the property existed before or not; a second insert on the
\* same key overwrites the first.
C23_GetAfterInsert ==
    last.type = "insert" =>
        /\ last.got = Some(last.v)
        /\ ConfigGet(state, last.ns, last.p) = Some(last.v)

\* an insert overwrote another value of the property
C23_Witness ==
    /\ last.type = "insert"
    /\ ConfigHas(pre, last.ns, last.p)
    /\ pre[last.ns][last.p] # last.v
    /\ last.got = Some(last.v)

\* both configs hold a key, with different values
Conflict(a, b) ==
    \E key \in ConfigAllKeys :
        /\ ConfigHas(a, key[1], key[2])
        /\ ConfigHas(b, key[1], key[2])
        /\ a[key[1]][key[2]] # b[key[1]][key[2]]

\* get answers the same on both configs for every key
SameEntries(a, b) ==
    \A key \in ConfigAllKeys : ConfigGet(a, key[1], key[2]) = ConfigGet(b, key[1], key[2])

\* C24: after a.merge(b), get(n, p) is b.get(n, p) when b has the key and the
\* value a had before otherwise; merge is associative, (a.merge(b)).merge(c)
\* being a.merge(b.merge(c)) for every c, and not commutative: b.merge(a)
\* differs from a.merge(b) whenever a and b hold different values for a key.
C24_MergeOtherWins ==
    last.type = "merge" =>
        /\ \A key \in ConfigAllKeys :
              ConfigGet(state, key[1], key[2]) =
                 IF ConfigHas(last.other, key[1], key[2])
                 THEN ConfigGet(last.other, key[1], key[2])
                 ELSE ConfigGet(pre, key[1], key[2])
        /\ \A c \in Configs :
              ConfigMerge(state, c) = ConfigMerge(pre, ConfigMerge(last.other, c))
        /\ Conflict(pre, last.other) => ~SameEntries(ConfigMerge(last.other, pre), state)

\* the merged config overwrote a value, added a namespace and left a property
\* of the receiver alone
C24_Witness ==
    /\ last.type = "merge"
    /\ Conflict(pre, last.other)
    /\ \E ns \in DOMAIN last.other : ns \notin DOMAIN pre /\ ns \in DOMAIN state
    /\ \E key \in ConfigAllKeys :
          /\ ConfigHas(pre, key[1], key[2])
          /\ ~ConfigHas(last.other, key[1], key[2])
          /\ key[1] \in DOMAIN last.other
          /\ ConfigGet(state, key[1], key[2]) = ConfigGet(pre, key[1], key[2])

\* the stores the latest update call changed
StoresChanged ==
    {st \in {"documents", "panes", "config"} :
        CASE st = "documents" -> state.documents # pre.documents
          [] st = "panes" -> state.panes # pre.panes
          [] st = "config" -> state.config # pre.config}

\* the latest update call applied PaneAction::Close to a pane showing a
\* document of the store
ClosedEditorPane ==
    \E id \in DOMAIN pre.panes.panes, d \in DOMAIN pre.documents.docs :
        Applied(ActClose(id)) /\ pre.panes.panes[id] = Editor(d)

\* C25 as claimed: a generic action, when applied, changes at most one of the
\* document store, the pane model and the config, and one that schedules a
\* task changes none.
C25_OneStorePerAction ==
    Len(AppliedActions) = 1 =>
        /\ Cardinality(StoresChanged) <= 1
        /\ emitted # <<>> => StoresChanged = {}

\* C25: a generic action, when applied, changes at most one of the document
\* store, the pane model and the config, and one that schedules a task changes
\* none, except PaneAction::Close(id) of a pane showing a stored document,
\* which changes the pane model and the document store.
C25_OneStoreUnlessCloseOfEditor ==
    Len(AppliedActions) = 1 =>
        /\ IF ClosedEditorPane
           THEN StoresChanged = {"documents", "panes"}
           ELSE Cardinality(StoresChanged) <= 1
        /\ emitted # <<>> => StoresChanged = {}

\* DocumentAction::Remove took a document away that a pane still shows: the
\* document store changed and the pane model did not
C25_Witness ==
    \E d \in DocIds :
        /\ Applied([family |-> "Document", op |-> "Remove", id |-> d])
        /\ DocHas(pre.documents, d)
        /\ Referencing(pre.panes, d) # {}
        /\ StoresChanged = {"documents"}

\* C26: applying DocumentAction::Add(handler) inserts the handler under a
\* freshly allocated document id, and the update call returns a follow-up
\* message that reports the id back to the event loop.
C26_AddReportsId ==
    \A h \in Handlers :
        Applied([family |-> "Document", op |-> "Add", handler |-> h]) =>
            /\ ~DocHas(pre.documents, pre.documents.next)
            /\ DocHas(state.documents, pre.documents.next)
            /\ state.documents.docs[pre.documents.next] = h
            /\ \E i \in 1..Len(emitted) : emitted[i].kind = "done"

\* C27: after any sequence of messages, the focused pane id is unset or is the
\* id of a pane present in the pane model; it never names a removed pane.
C27_FocusNamesPresentPane ==
    IsSome(PaneGetOpenId(state.panes))
        => PaneHas(state.panes, Unwrap(PaneGetOpenId(state.panes)))

\* the focused pane had been closed beside another one, and the file opened
\* next was given a new pane, which is focused
C27_Witness ==
    /\ last.type = "OpenedFile"
    /\ last.ok
    /\ PaneGetOpenId(pre.panes) = None
    /\ PaneCount(pre.panes) > 0
    /\ PaneGetOpenId(state.panes) = Some(pre.panes.next)
    /\ PaneHas(state.panes, pre.panes.next)

ActReplace(id, pane) == [family |-> "Pane", op |-> "Replace", id |-> id, pane |-> pane]

\* C28: PaneAction::Replace(id, pane) on an existing pane id changes only the
\* content stored under id: the set of pane ids, the pane count, the id
\* allocator and the focused pane id are as before, and so is everything else
\* of the session; likewise when OpenedFile replaces the focused NewDocument
\* pane.
C28_ReplaceChangesContentOnly ==
    /\ \A id \in PaneIds, p \in Panes :
          (Applied(ActReplace(id, p)) /\ PaneHas(pre.panes, id)) =>
              /\ state.panes.panes[id] = p
              /\ DOMAIN state.panes.panes = DOMAIN pre.panes.panes
              /\ PaneCount(state.panes) = PaneCount(pre.panes)
              /\ state.panes.next = pre.panes.next
              /\ PaneGetOpenId(state.panes) = PaneGetOpenId(pre.panes)
              /\ \A i \in DOMAIN pre.panes.panes \ {id} :
                    state.panes.panes[i] = pre.panes.panes[i]
              /\ [state EXCEPT !.panes = pre.panes] = pre
    /\ (last.type = "OpenedFile" /\ last.ok /\ PaneGetOpen(pre.panes) = Some(NewDocument)) =>
          /\ DOMAIN state.panes.panes = DOMAIN pre.panes.panes
          /\ state.panes.next = pre.panes.next
          /\ PaneGetOpenId(state.panes) = PaneGetOpenId(pre.panes)
          /\ \A i \in DOMAIN pre.panes.panes \ {Unwrap(PaneGetOpenId(pre.panes))} :
                state.panes.panes[i] = pre.panes.panes[i]

\* the content of an unfocused pane was replaced while another pane had the
\* focus
C28_Witness ==
    \E id \in PaneIds, p \in Panes :
        /\ Applied(ActReplace(id, p))
        /\ PaneHas(pre.panes, id)
        /\ pre.panes.panes[id] # p
        /\ IsSome(PaneGetOpenId(pre.panes))
        /\ PaneGetOpenId(pre.panes) # Some(id)
        /\ state.panes.panes[id] = p

\* C29 as claimed: PaneAction::Close(id) of the focused pane with other panes
\* remaining leaves open_id unset; Close(id) of a pane that is not focused
\* leaves the focused pane id unchanged.
C29_CloseClearsOrKeepsFocus ==
    \A id \in PaneIds :
        Applied(ActClose(id)) =>
            IF PaneGetOpenId(pre.panes) = Some(id)
            THEN PaneCount(pre.panes) > 1 => PaneGetOpenId(state.panes) = None
            ELSE PaneGetOpenId(state.panes) = PaneGetOpenId(pre.panes)

\* C29: PaneAction::Close(id) of the focused pane with other panes remaining
\* leaves open_id unset; Close(id) of a pane that is not focused leaves the
\* focused pane id unchanged, unless it removes the last pane: the NewDocument
\* pane seeded then is focused.
C29_CloseClearsOrKeepsFocusUnlessLast ==
    \A id \in PaneIds :
        Applied(ActClose(id)) =>
            IF DOMAIN pre.panes.panes = {id}
            THEN PaneGetOpenId(state.panes) = Some(pre.panes.next)
            ELSE IF PaneGetOpenId(pre.panes) = Some(id)
                 THEN PaneGetOpenId(state.panes) = None
                 ELSE PaneGetOpenId(state.panes) = PaneGetOpenId(pre.panes)

\* the focused pane was closed beside another pane, and no pane is focused
C29_Witness ==
    \E id \in PaneIds :
        /\ Applied(ActClose(id))
        /\ PaneGetOpenId(pre.panes) = Some(id)
        /\ PaneCount(pre.panes) > 1
        /\ PaneCount(state.panes) = PaneCount(pre.panes) - 1
        /\ PaneGetOpenId(state.panes) = None

ActSave(d) == [family |-> "Document", op |-> "Save", id |-> d]

\* C30: save clears dirty end to end: DocumentAction::Save(d) of a document
\* with changed = true schedules the write of d's text to d's path and leaves
\* the flag set; once the write has completed and its completion message
\* SavedFile(d) is processed with d still in the store, changed of d is false.
C30_SaveClearsDirtyEndToEnd ==
    /\ \A d \in DocIds :
          (Applied(ActSave(d)) /\ DocHas(pre.documents, d) /\ Doc(pre, d).changed) =>
              /\ emitted = <<TaskSave(d, Doc(pre, d).path, Doc(pre, d).text)>>
              /\ state = pre
    /\ (last.type = "SavedFile" /\ last.written /\ DocHas(pre.documents, last.id)) =>
          /\ DocHas(state.documents, last.id)
          /\ ~Doc(state, last.id).changed

\* the write of an edited document completed and its SavedFile cleared the
\* flag; no write is left running
C30_Witness ==
    /\ last.type = "SavedFile"
    /\ last.written
    /\ DocHas(pre.documents, last.id)
    /\ Doc(pre, last.id).changed
    /\ Doc(pre, last.id).text # <<>>
    /\ ~Doc(state, last.id).changed
    /\ tasks = <<>>

\* C31: from the initial session (one focused NewDocument pane), after any
\* sequence of messages the pane model is never empty: count() >= 1 in every
\* state between two update calls.
C31_PaneModelNeverEmpty == PaneCount(state.panes) >= 1

\* the only pane was closed, and the pane model holds the pane seeded for it
C31_Witness ==
    \E id \in PaneIds :
        /\ Applied(ActClose(id))
        /\ DOMAIN pre.panes.panes = {id}
        /\ PaneCount(state.panes) = 1
        /\ ~PaneHas(state.panes, id)

\* C32: under the messages the view and the default hotkeys produce, documents
\* and Editor panes stay in one-to-one correspondence: every Editor(d) pane
\* names a document of the store, and every document of the store is named by
\* exactly one Editor pane.
C32_DocumentsMatchEditorPanes ==
    /\ \A i \in DOMAIN state.panes.panes :
          state.panes.panes[i][1] = "Editor"
              => DocHas(state.documents, state.panes.panes[i][2])
    /\ \A d \in DOMAIN state.documents.docs :
          Cardinality(Referencing(state.panes, d)) = 1

\* a second file was opened beside the first, each in its own Editor pane
C32_Witness ==
    /\ last.type = "OpenedFile"
    /\ last.ok
    /\ Cardinality(DOMAIN state.documents.docs) = 2
    /\ \A d \in DOMAIN state.documents.docs :
          Cardinality(Referencing(state.panes, d)) = 1

\* C33: a document with changed = false holds the text most recently read
\* from or written to disk for it; in particular, when SavedFile(d) is
\* processed after an edit that followed the dispatch of Save(d), d is not left
\* with changed = false while holding text that was never written.
C33_CleanDocumentHoldsWrittenText ==
    (/\ last.type = "SavedFile"
     /\ DocHas(state.documents, last.id)
     /\ ~Doc(state, last.id).changed)
        => Doc(state, last.id).text = last.text

\* the LoadTheme message of the start-up is being processed
InitialLoadTheme == last.type = "LoadTheme"

PendingLoads(id) == {i \in 1..Len(tasks) : tasks[i] = TaskDone(MsgLoadPlugin(id, TRUE))}

\* every registered plugin is in Loaded state
AllPluginsLoaded ==
    \A i \in 1..Len(state.plugin_host) : state.plugin_host[i].loaded

\* C35: App::new emits one LoadPlugin(id, true) for every plugin registered at
\* construction: a plugin is Registered while its one message is to be
\* delivered and Loaded once it was processed, never before, and under fair
\* delivery of the start-up tasks every registered plugin is eventually Loaded.
C35_EveryPluginEventuallyLoaded ==
    /\ [](\A i \in 1..Len(state.plugin_host) :
            Cardinality(PendingLoads(state.plugin_host[i].id)) =
                (IF state.plugin_host[i].loaded THEN 0 ELSE 1))
    /\ <>[]AllPluginsLoaded

\* the LoadPlugin message of the registered plugin was processed and left it
\* Loaded
C35_Witness ==
    /\ last.type = "LoadPlugin"
    /\ last.load
    /\ PluginRegistered(pre.plugin_host, last.id)
    /\ ~PluginLoaded(pre.plugin_host, last.id)
    /\ AllPluginsLoaded
    /\ PendingLoads(last.id) = {}

\* C36: in the legacy session next_doc_id starts at 1 and never decreases,
\* every key of documents lies in 1..next_doc_id-1, and opened_doc is below
\* next_doc_id: FocusDocument(id) is accepted only when id < next_doc_id, and
\* the FocusDocument a successful OpenedFile emits is accepted whenever it is
\* delivered.
C36_LegacyIdsBelowAllocator ==
    /\ state.next_doc_id >= 1
    /\ state.next_doc_id >= pre.next_doc_id
    /\ \A d \in DOMAIN state.documents : d >= 1 /\ d < state.next_doc_id
    /\ state.opened_doc < state.next_doc_id
    /\ last.type = "FocusDocument" =>
          state.opened_doc = (IF last.id < pre.next_doc_id THEN last.id ELSE pre.opened_doc)
    /\ (last.type = "OpenedFile" /\ last.ok) =>
          emitted[1] = TaskDone(MsgFocusDocument(pre.next_doc_id))
    /\ \A i \in 1..Len(tasks) :
          (tasks[i].kind = "done" /\ tasks[i].msg.type = "FocusDocument")
              => tasks[i].msg.id < state.next_doc_id

\* the FocusDocument of the file opened last was delivered and focused it,
\* after another document had been focused
C36_Witness ==
    /\ last.type = "FocusDocument"
    /\ last.id = state.next_doc_id - 1
    /\ last.id \in DOMAIN state.documents
    /\ pre.opened_doc # 0
    /\ pre.opened_doc # last.id
    /\ state.opened_doc = last.id

\* C37 as stated: the button publishes on_press only on a left-button release
\* or finger lift met with is_pressed true, the cursor over the button and the
\* event not captured by the content; every release after a press and every
\* FingerLost leaves is_pressed false; the messages published never outnumber
\* the presses accepted.
C37_ButtonPublishesOncePerPress ==
    last.type = "on_event" =>
        /\ emitted # <<>> =>
              /\ emitted = <<"on_press">>
              /\ last.event \in ReleaseEvents
              /\ pre.is_pressed
              /\ last.over
              /\ ~last.captured
              /\ tasks.presses >= 1
        /\ (last.event \in ReleaseEvents /\ pre.is_pressed) => ~state.is_pressed
        /\ last.event = "FingerLost" => ~state.is_pressed
        /\ Len(tasks.published) <= tasks.presses

\* C37: the button publishes on_press only on a left-button release or finger
\* lift met with is_pressed true, the cursor over the button and the event not
\* captured by the content; every release after a press and every FingerLost
\* that the content does not capture leaves is_pressed false (one the content
\* captures leaves the State as it was); the messages published never
\* outnumber the presses accepted.
C37_ButtonPublishesOncePerHandledPress ==
    last.type = "on_event" =>
        /\ emitted # <<>> =>
              /\ emitted = <<"on_press">>
              /\ last.event \in ReleaseEvents
              /\ pre.is_pressed
              /\ last.over
              /\ ~last.captured
              /\ tasks.presses >= 1
        /\ (last.event \in ReleaseEvents /\ pre.is_pressed /\ ~last.captured)
              => ~state.is_pressed
        /\ (last.event = "FingerLost" /\ ~last.captured) => ~state.is_pressed
        /\ last.captured => (state = pre /\ last.status = "Captured")
        /\ Len(tasks.published) <= tasks.presses

\* the second press of a run was released over the button and published the
\* second message
C37_Witness ==
    /\ last.type = "on_event"
    /\ last.event \in ReleaseEvents
    /\ emitted = <<"on_press">>
    /\ ~state.is_pressed
    /\ tasks.presses = 2
    /\ Len(tasks.published) = 2

====
